---- MODULE Spec2Model ----
(***************************************************************************)
(* Model of the data-synchronisation engine of finance_app.py: the remote  *)
(* sheet store, the 60 s read cache, api_retry, get_df, update_full_sheet, *)
(* add_row, update_row_by_id, delete_row_by_id and the handlers that call  *)
(* them (editable grid save, manual add, smart upload, edit / delete card).*)
(*                                                                         *)
(* A worksheet is the sequence of its lines; line 1 is the header line.    *)
(* A data line of Transactions is a record ID/Year/Month/Amount, a data    *)
(* line of Cards a record ID/Name/Limit (the other columns carry no        *)
(* control flow in the modelled code).                                     *)
(***************************************************************************)
EXTENDS Integers, Sequences, FiniteSets, TLC

VARIABLES
    remote,     \* the spreadsheet: worksheet name -> sequence of lines
    cache,      \* st.cache_data of fetch_sheet_data_cached, per sheet name
    last,       \* what the last handler did (calls issued, result, inputs)
    rpc,        \* api_retry walk-through: position in the function
    ri,         \* api_retry walk-through: loop variable i
    rcalls,     \* api_retry walk-through: outcomes of the calls made so far
    rslept,     \* api_retry walk-through: total time slept, in half seconds
    wpc,        \* stepwise update_full_sheet: position in the function
    wdf,        \* stepwise update_full_sheet: the dataframe being written
    wold,       \* stepwise update_full_sheet: the data lines before it began
    seen,       \* what a concurrent reader has read from the worksheet
    fin,        \* a function on its own: the arguments it is called with
    fout,       \* a function on its own: <<>> before the call, then <<result>>
    procs       \* server processes on the same spreadsheet: each one's position,
                \* its own st.cache_data and the dataframe it holds in memory

vars == <<remote, cache, last, rpc, ri, rcalls, rslept, wpc, wdf, wold, seen, fin, fout, procs>>

(***************************************************************************)
(* Bounds of the model.                                                    *)
(***************************************************************************)
MaxRows == 2            \* most data lines a worksheet holds in the model
MaxCol == 4             \* most cells of an ID column given to get_next_id alone
MaxId == 3              \* largest ID handed out in the model

(***************************************************************************)
(* Program constants.                                                      *)
(***************************************************************************)
TTL == 60               \* @st.cache_data(ttl=60)
RetryLoops == 5         \* for i in range(5)

Tables ==
    {"Transactions", "Cards", "Statements", "Card_Payments", "Banks", "Bank_Balances",
     "Loans", "Loan_Repayments", "Active_EMIs", "EMI_Log"}
PageTables == {"Transactions", "Cards"}
Years == {2026}
Months == {"Jan", "Feb"}
Amounts == {10, 20}
Names == {"Visa", "Amex"}
Limits == {1000, 2000}
TickSteps == {TTL - 1, TTL}     \* time advances by 59 s or by 60 s

HDR == [ID |-> -1]              \* the header line a write of df.columns leaves

(***************************************************************************)
(* Exceptions are modelled by their message text, a sequence of            *)
(* characters; the empty text stands for "no exception".                   *)
(***************************************************************************)
OK == <<>>
E429 == <<"4", "2", "9">>                   \* APIError: quota exceeded
E404 == <<"4", "0", "4">>                   \* APIError: not found
E403 == <<"4", "0", "3">>                   \* APIError: permission denied
EQ429 == <<"Q", "4", "2", "9">>             \* a 429 inside a longer text
EWNF == <<"W", "N", "F">>                   \* gspread.WorksheetNotFound
EKey == <<"K", "e", "y">>                   \* KeyError: a column the dataframe lacks

Contains(s, p) ==
    \E k \in 1..(Len(s) - Len(p) + 1) : SubSeq(s, k, k + Len(p) - 1) = p

\* api_retry line 116:  "429" in str(e)
IsRateLimit(e) == Contains(e, E429)

(***************************************************************************)
(* Sequence helpers.                                                       *)
(***************************************************************************)
RECURSIVE SelectIdx(_, _, _)
SelectIdx(s, keep, k) ==
    IF k > Len(s) THEN <<>>
    ELSE IF k \in keep THEN <<s[k]>> \o SelectIdx(s, keep, k + 1)
    ELSE SelectIdx(s, keep, k + 1)

RemoveAt(s, k) == SubSeq(s, 1, k - 1) \o SubSeq(s, k + 1, Len(s))

Range(s) == {s[k] : k \in 1..Len(s)}

(***************************************************************************)
(* The execution context threaded through one handler: the store, the      *)
(* cache, the number of remote calls made, their names, the exception in   *)
(* flight, the dataframe and the value last returned.  F is the fault plan *)
(* of the handler: the remote calls numbered in F.at fail with message     *)
(* F.kind.                                                                 *)
(* shown: st.error was displayed; age: the oldest cached value served;     *)
(* wrote: a write function ran to its end.                                 *)
(***************************************************************************)
\* the element of a one-element set: The({e(v) : v \in {x}}) is e of the value
\* of x
The(S) == CHOOSE x \in S : TRUE

NoFault == [at |-> {}, kind |-> OK]

Outcome(F, k) == IF k \in F.at THEN F.kind ELSE OK

\* a statement behind a raised exception is not reached
Call(s, F, name) ==
    The({IF e.exc # OK THEN e
         ELSE [e EXCEPT !.n = @ + 1, !.log = Append(@, name), !.exc = Outcome(F, e.n + 1)]
         : e \in {s}})

\* mutant: the clear leaves the first two lines in place
WsClearPartial(s, F, t) ==
    The({IF c.exc # OK THEN c ELSE [c EXCEPT !.remote[t] = SubSeq(@, 1, 2)]
         : c \in {Call(s, F, "clear")}})

\* gspread Worksheet.clear
WsClear(s, F, t) ==
    The({IF c.exc # OK THEN c ELSE [c EXCEPT !.remote[t] = <<>>]
         : c \in {Call(s, F, "clear")}})

\* gspread Worksheet.append_row
WsAppendRow(s, F, t, line) ==
    The({IF c.exc # OK THEN c ELSE [c EXCEPT !.remote[t] = Append(@, line)]
         : c \in {Call(s, F, "append_row")}})

\* gspread Worksheet.append_rows
WsAppendRows(s, F, t, lines) ==
    The({IF c.exc # OK THEN c ELSE [c EXCEPT !.remote[t] = @ \o lines]
         : c \in {Call(s, F, "append_rows")}})

\* gspread Worksheet.delete_rows (1-based line number)
WsDeleteRows(s, F, t, k) ==
    The({IF c.exc # OK THEN c ELSE [c EXCEPT !.remote[t] = RemoveAt(@, k)]
         : c \in {Call(s, F, "delete_rows")}})

\* required_cols of get_df (lines 131-142), the columns the model keeps
RequiredCols(t) ==
    CASE t = "Cards" -> {"ID", "Name", "Limit"}
      [] t = "Statements" -> {"CardID", "Year", "Month", "Billed", "Paid", "Unbilled", "DueDate"}
      [] t = "Card_Payments" -> {"ID", "CardID", "Year", "Month", "Amount"}
      [] t = "Loans" -> {"ID", "EMI", "Outstanding", "Status"}
      [] t = "Loan_Repayments" -> {"ID", "LoanID", "PaymentDate", "Amount", "Type"}
      [] t = "Active_EMIs" -> {"ID", "MonthlyEMI", "Status"}
      [] t = "EMI_Log" -> {"ID", "EMI_ID", "Month", "Year", "Amount"}
      [] t = "Banks" -> {"ID", "Name"}
      [] t = "Bank_Balances" -> {"BankID", "Year", "Month", "Balance"}
      [] t = "Transactions" -> {"ID", "Year", "Month", "Amount"}

TextCols == {"Name", "Month", "Status", "Type"}

\* A record read under a first line that is not the header has none of the
\* schema columns; get_df materialises them empty.
BlankRow(t) ==
    [c \in RequiredCols(t) |->
        IF c = "PaymentDate" THEN <<>> ELSE IF c \in TextCols THEN "" ELSE 0]

\* gspread Worksheet.get_all_records: line 1 gives the keys, the rest the records
Records(t, sheet) ==
    IF Len(sheet) = 0 THEN <<>>
    ELSE IF sheet[1] = HDR THEN Tail(sheet)
    ELSE [k \in 1..(Len(sheet) - 1) |-> BlankRow(t)]

WsGetAllRecords(s, F, t) ==
    The({IF c.exc # OK THEN c ELSE [c EXCEPT !.df = Records(t, c.remote[t])]
         : c \in {Call(s, F, "get_all_records")}})

(***************************************************************************)
(* api_retry (lines 111-120).  RetryStep is the decision taken after one   *)
(* call of the wrapped function in loop round i.                           *)
(***************************************************************************)
\* mutant: every exception is retried
RetryStepAny(i, out) ==
    IF out = OK THEN "return" ELSE "continue"

RetryStep(i, out) ==
    IF out = OK THEN "return"
    ELSE IF IsRateLimit(out) THEN "continue"
    ELSE "raise"

RECURSIVE ApiRetry(_, _, _, _)
ApiRetry(s, F, name, i) ==
    The({IF i >= RetryLoops THEN c                      \* line 120
         ELSE IF RetryStep(i, c.exc) = "continue"
              THEN ApiRetry([c EXCEPT !.exc = OK], F, name, i + 1)
              ELSE c
         : c \in {Call(s, F, name)}})

\* sh.worksheet(name) through api_retry
Worksheet(s, F) ==
    The({IF e.exc # OK THEN e ELSE ApiRetry(e, F, "worksheet", 0) : e \in {s}})

(***************************************************************************)
(* The cache (lines 122-127).                                              *)
(***************************************************************************)
NoEntry == [has |-> FALSE, data |-> <<>>, age |-> 0]
EmptyCache == [t \in Tables |-> NoEntry]

\* mutant: an entry exactly TTL seconds old is still served
FreshLe(e) == e.has /\ e.age <= TTL

Fresh(e) == e.has /\ e.age < TTL

\* st.cache_data.clear()
ClearCache(s) == [s EXCEPT !.cache = EmptyCache]

\* fetch_sheet_data_cached: a hit returns the stored value, a miss runs the
\* body and stores its value; an exception stores nothing.
FetchSheetDataCached(s, F, t) ==
    The({IF e.exc # OK THEN e
         ELSE IF Fresh(e.cache[t])
         THEN [e EXCEPT !.df = e.cache[t].data,
                        !.age = IF e.cache[t].age > @ THEN e.cache[t].age ELSE @]
         ELSE The({IF r.exc # OK THEN r
                   ELSE [r EXCEPT !.cache[t] = [has |-> TRUE, data |-> r.df, age |-> 0]]
                   : r \in {WsGetAllRecords(Worksheet(e, F), F, t)}})
         : e \in {s}})

\* get_df (lines 129-160): both except branches give an empty dataframe, with
\* the required columns after WorksheetNotFound and without any column after
\* another exception; cols tells whether the dataframe has its columns
GetDf(s, F, t) ==
    The({IF e.exc # OK THEN e
         ELSE The({IF f.exc = OK THEN [f EXCEPT !.cols = TRUE]
                   ELSE IF f.exc = EWNF
                   THEN [f EXCEPT !.exc = OK, !.df = <<>>, !.cols = TRUE]
                   ELSE [f EXCEPT !.exc = OK, !.df = <<>>, !.cols = FALSE, !.shown = TRUE]
                   : f \in {FetchSheetDataCached(e, F, t)}})
         : e \in {s}})

(***************************************************************************)
(* Writers (lines 162-207).                                                *)
(***************************************************************************)
\* update_full_sheet: any exception is shown with st.error and swallowed
UpdateFullSheet(s, F, t, df) ==
    The({IF e.exc # OK THEN e
         ELSE The({IF c.exc # OK
                   THEN [c EXCEPT !.exc = OK, !.shown = TRUE, !.rv = "None"]
                   ELSE [ClearCache(c) EXCEPT !.rv = "None", !.wrote = TRUE]
                   : c \in {WsAppendRows(
                                WsAppendRow(
                                    WsClear(Worksheet(e, F), F, t),
                                    F, t, HDR),
                                F, t, df)}})
         : e \in {s}})

\* mutant: add_row without clear_cache()
AddRowNoClear(s, F, t, row) ==
    The({IF a.exc # OK THEN a ELSE [a EXCEPT !.wrote = TRUE]
         : a \in {WsAppendRow(Worksheet(s, F), F, t, row)}})

\* add_row: no try block, an exception reaches the caller
AddRow(s, F, t, row) ==
    The({IF a.exc # OK THEN a ELSE [ClearCache(a) EXCEPT !.wrote = TRUE]
         : a \in {WsAppendRow(Worksheet(s, F), F, t, row)}})

\* df_current.index[df_current['ID'].astype(str) == str(id_val)]
IdxOfId(df, id) == {k \in 1..Len(df) : df[k].ID = id}

Min(S) == CHOOSE x \in S : \A y \in S : x <= y

\* for col, val in updated_dict.items(): df_current.at[idx, col] = val
PatchRow(row, patch) ==
    [f \in DOMAIN row |-> IF f \in DOMAIN patch THEN patch[f] ELSE row[f]]

\* the collection passed to update_row_by_id as the call leaves it (lines 183-184)
\* mutant: the row is replaced by the updated cells, its other cells blanked
PatchedDfBlankRest(df, id, patch) ==
    IF IdxOfId(df, id) = {} THEN df
    ELSE [df EXCEPT ![Min(IdxOfId(df, id))] =
             [f \in DOMAIN @ |-> IF f \in DOMAIN patch THEN patch[f]
                                 ELSE IF f = "ID" THEN @[f] ELSE ""]]

PatchedDf(df, id, patch) ==
    IF IdxOfId(df, id) = {} THEN df
    ELSE [df EXCEPT ![Min(IdxOfId(df, id))] = PatchRow(@, patch)]

\* mutant: the sheet is rewritten also when no row has the ID
UpdateRowByIdAlways(s, F, t, id, patch, df) ==
    IF IdxOfId(df, id) = {} THEN [UpdateFullSheet(s, F, t, df) EXCEPT !.rv = "False"]
    ELSE LET idx == Min(IdxOfId(df, id))
         IN  [UpdateFullSheet(s, F, t, [df EXCEPT ![idx] = PatchRow(@, patch)])
                 EXCEPT !.rv = "True"]

\* update_row_by_id; the patch is applied to the first matching row
UpdateRowById(s, F, t, id, patch, df) ==
    IF IdxOfId(df, id) = {} THEN [s EXCEPT !.rv = "False"]
    ELSE LET idx == Min(IdxOfId(df, id))
         IN  [UpdateFullSheet(s, F, t, [df EXCEPT ![idx] = PatchRow(@, patch)])
                 EXCEPT !.rv = "True"]

\* mutant: the cache is cleared also when no record has the ID
DeleteRowByIdClears(s, F, t, id) ==
    The({IF e.exc # OK THEN e
         ELSE The({IF r.exc # OK
                   THEN [r EXCEPT !.exc = OK, !.shown = TRUE, !.rv = "False"]
                   ELSE IF IdxOfId(r.df, id) = {} THEN [ClearCache(r) EXCEPT !.rv = "False"]
                   ELSE The({IF d.exc # OK
                             THEN [d EXCEPT !.exc = OK, !.shown = TRUE, !.rv = "False"]
                             ELSE [ClearCache(d) EXCEPT !.rv = "True", !.wrote = TRUE]
                             : d \in {WsDeleteRows(r, F, t, Min(IdxOfId(r.df, id)) + 1)}})
                   : r \in {WsGetAllRecords(Worksheet(e, F), F, t)}})
         : e \in {s}})

\* mutant: the line deleted is the one at the record's zero-based index + 1
DeleteRowByIdOffByOne(s, F, t, id) ==
    The({IF e.exc # OK THEN e
         ELSE The({IF r.exc # OK
                   THEN [r EXCEPT !.exc = OK, !.shown = TRUE, !.rv = "False"]
                   ELSE IF IdxOfId(r.df, id) = {} THEN [r EXCEPT !.rv = "False"]
                   ELSE The({IF d.exc # OK
                             THEN [d EXCEPT !.exc = OK, !.shown = TRUE, !.rv = "False"]
                             ELSE [ClearCache(d) EXCEPT !.rv = "True", !.wrote = TRUE]
                             : d \in {WsDeleteRows(r, F, t, Min(IdxOfId(r.df, id)))}})
                   : r \in {WsGetAllRecords(Worksheet(e, F), F, t)}})
         : e \in {s}})

\* delete_row_by_id: the whole body is inside try, every exception gives False
DeleteRowById(s, F, t, id) ==
    The({IF e.exc # OK THEN e
         ELSE The({IF r.exc # OK
                   THEN [r EXCEPT !.exc = OK, !.shown = TRUE, !.rv = "False"]
                   ELSE IF IdxOfId(r.df, id) = {} THEN [r EXCEPT !.rv = "False"]
                   ELSE The({IF d.exc # OK
                             THEN [d EXCEPT !.exc = OK, !.shown = TRUE, !.rv = "False"]
                             ELSE [ClearCache(d) EXCEPT !.rv = "True", !.wrote = TRUE]
                             : d \in {WsDeleteRows(r, F, t, Min(IdxOfId(r.df, id)) + 1)}})
                   : r \in {WsGetAllRecords(Worksheet(e, F), F, t)}})
         : e \in {s}})

(***************************************************************************)
(* get_next_id (lines 73-78).  A cell of the ID column is an integer, a    *)
(* text or missing; pd.to_numeric(errors='coerce') turns a text that is    *)
(* not a numeral and a missing cell into NaN, fillna(0) turns NaN into 0.  *)
(***************************************************************************)
Max(S) == CHOOSE x \in S : \A y \in S : x >= y

IntCell(n) == [k |-> "int", v |-> n]
StrCell(t) == [k |-> "str", v |-> t]
NoneCell == [k |-> "none", v |-> 0]

Digits == <<"0", "1", "2", "3", "4", "5", "6", "7", "8", "9">>

DigitVal(c) == (CHOOSE i \in 1..10 : Digits[i] = c) - 1

RECURSIVE NumeralVal(_)
NumeralVal(t) ==
    IF t = <<>> THEN 0
    ELSE 10 * NumeralVal(SubSeq(t, 1, Len(t) - 1)) + DigitVal(t[Len(t)])

NaN == [ok |-> FALSE, v |-> 0]

ToNumeric(c) ==
    IF c.k = "int" THEN [ok |-> TRUE, v |-> c.v]
    ELSE IF c.k = "str" /\ c.v # <<>> /\ \A i \in 1..Len(c.v) : c.v[i] \in Range(Digits)
         THEN [ok |-> TRUE, v |-> NumeralVal(c.v)]
    ELSE NaN

FillNa0(x) == IF x.ok THEN x.v ELSE 0

\* mutant: the next ID is the number of rows plus one
GetNextIdByCount(frame) ==
    IF frame.ids = <<>> \/ ~frame.hasId THEN 1 ELSE Len(frame.ids) + 1

\* frame.hasId: 'ID' is a column of the dataframe; frame.ids: that column
GetNextIdOf(frame) ==
    IF frame.ids = <<>> \/ ~frame.hasId THEN 1
    ELSE Max({FillNa0(ToNumeric(frame.ids[k])) : k \in 1..Len(frame.ids)}) + 1

\* mutant: the largest ID is handed out again
GetNextIdNoIncrement(df) ==
    IF df = <<>> THEN 1 ELSE Max({df[k].ID : k \in 1..Len(df)})

\* on the rows of the model, whose IDs are integers
GetNextId(df) ==
    GetNextIdOf([hasId |-> TRUE, ids |-> [k \in 1..Len(df) |-> IntCell(df[k].ID)]])

(***************************************************************************)
(* Handlers.  Each runs from the context S0 of the current state, under a  *)
(* fault plan F, and leaves what it did in last.  The X...Run operators    *)
(* are the handlers as functions of their inputs; the actions below them   *)
(* draw the inputs.                                                        *)
(***************************************************************************)
S0 == [remote |-> remote, cache |-> cache, n |-> 0, log |-> <<>>, exc |-> OK,
       df |-> <<>>, cols |-> TRUE, rv |-> "None", shown |-> FALSE, age |-> 0,
       wrote |-> FALSE]

FaultKinds == {E429, E404}

\* a fault plan names one of the n calls the handler makes when nothing fails
\* and the error that call raises
FaultsUpTo(n, kinds) == {NoFault} \cup [at : {{k} : k \in 1..n}, kind : kinds]

\* an outage: two of the calls numbered 1..n fail
FaultsTwice(n, kinds) == [at : {{j, k} : j, k \in 1..n} \ {{k} : k \in 1..n}, kind : kinds]

\* what last keeps of a grid save: the IDs ticked Delete, whether a field was
\* edited, and the remote calls issued after the grid was loaded
NoGrid == [flagged |-> {}, edited |-> FALSE, saveLog |-> <<>>]

NoLast == [op |-> "init", args |-> <<>>, fkind |-> OK, rv |-> "None",
           shown |-> FALSE, raised |-> FALSE, wrote |-> FALSE, age |-> 0,
           grid |-> NoGrid]

Finish(op, args, s, F, g) ==
    \E e \in {s} :                              \* the context the handler ends in
        /\ remote' = e.remote
        /\ cache' = e.cache
        /\ last' = [op |-> op, args |-> args, fkind |-> F.kind, rv |-> e.rv,
                    shown |-> e.shown, raised |-> (e.exc # OK), wrote |-> e.wrote,
                    age |-> e.age, grid |-> g]
        /\ UNCHANGED <<rpc, ri, rcalls, rslept, wpc, wdf, wold, seen, fin, fout, procs>>

(***************************************************************************)
(* render_editable_grid, Save Changes (lines 271-297), on the rows df.     *)
(* amt gives the Amount typed into each row, del the rows ticked Delete.   *)
(***************************************************************************)
RECURSIVE DeleteEach(_, _, _, _)
DeleteEach(s, F, t, rows) ==
    IF rows = <<>> THEN s
    ELSE DeleteEach(DeleteRowById(s, F, t, Head(rows).ID), F, t, Tail(rows))

\* st.data_editor: the displayed rows with the user's edits
EditedDf(df, amt) == [k \in 1..Len(df) |-> [df[k] EXCEPT !.Amount = amt[k]]]

\* mutant: the replace is issued without comparing against the original
GridSaveAlways(s, F, t, df, amt, del) ==
    LET edited_df == EditedDf(df, amt)
        d == DeleteEach(s, F, t, SelectIdx(edited_df, del, 1))
    IN  UpdateFullSheet(d, F, t, edited_df)

GridSave(s, F, t, df, amt, del) ==
    LET edited_df == EditedDf(df, amt)
        to_delete == SelectIdx(edited_df, del, 1)
        d == DeleteEach(s, F, t, to_delete)
        final_df == edited_df                   \* only the Delete column is dropped
    IN  IF final_df # df THEN UpdateFullSheet(d, F, t, final_df)
        ELSE d

\* tx[(tx['Year'] == year) & (tx['Month'] == month)]
PeriodIdx(df, y, m) == {k \in 1..Len(df) : df[k].Year = y /\ df[k].Month = m}

CurrTx(df, y, m) == SelectIdx(df, PeriodIdx(df, y, m), 1)

\* History tab of render_transactions (lines 651-656) with Save Changes pressed
SaveTransactionsRun(s, F, y, m, amt, del) ==
    The({GridSave(g, F, "Transactions", CurrTx(g.df, y, m), amt, del)
         : g \in {GetDf(s, F, "Transactions")}})

SaveTransactions(y, m, amt, del, F) ==
    \E g \in {GetDf(S0, F, "Transactions")} :
        \E curr_tx \in {CurrTx(g.df, y, m)} :
            /\ curr_tx # <<>>                   \* line 252: no grid without rows
            /\ DOMAIN amt = 1..Len(curr_tx)
            /\ del \subseteq 1..Len(curr_tx)
            /\ \E s \in {GridSave(g, F, "Transactions", curr_tx, amt, del)} :
                  Finish("save_grid", <<y, m>>, s, F,
                         [flagged |-> {curr_tx[k].ID : k \in del},
                          edited |-> (EditedDf(curr_tx, amt) # curr_tx),
                          saveLog |-> SubSeq(s.log, Len(g.log) + 1, Len(s.log))])

\* Manual Add tab (lines 668-671)
AddEntryRun(s, F, y, m, a) ==
    The({AddRow(g, F, "Transactions",
                [ID |-> GetNextId(g.df), Year |-> y, Month |-> m, Amount |-> a])
         : g \in {GetDf(s, F, "Transactions")}})

AddEntry(y, m, a, F) ==
    /\ Len(remote["Transactions"]) <= MaxRows
    /\ GetNextId(GetDf(S0, F, "Transactions").df) <= MaxId
    /\ Finish("add_entry", <<>>, AddEntryRun(S0, F, y, m, a), F, NoGrid)

\* Smart Upload (lines 695-754): every entry takes get_next_id(get_df(...)),
\* then one append_rows; any exception is shown as a parsing error
RECURSIVE BuildEntries(_, _, _, _, _)
BuildEntries(s, F, y, m, amts) ==
    IF amts = <<>> THEN [s EXCEPT !.df = <<>>]
    ELSE The({The({[r EXCEPT !.df = <<[ID |-> GetNextId(g.df), Year |-> y, Month |-> m,
                                       Amount |-> Head(amts)]>> \o @]
                   : r \in {BuildEntries(g, F, y, m, Tail(amts))}})
              : g \in {GetDf(s, F, "Transactions")}})

ProcessFileRun(s, F, y, m, amts) ==
    The({The({IF a.exc # OK THEN [a EXCEPT !.exc = OK, !.shown = TRUE]
              ELSE [ClearCache(a) EXCEPT !.wrote = TRUE]
              : a \in {WsAppendRows(Worksheet(b, F), F, "Transactions", b.df)}})
         : b \in {BuildEntries(s, F, y, m, amts)}})

ProcessFile(y, m, amts, F) ==
    /\ amts # <<>>                              \* line 745: if entries
    /\ Len(remote["Transactions"]) + Len(amts) <= MaxRows + 1
    /\ \E s \in {ProcessFileRun(S0, F, y, m, amts)} :
          /\ \A k \in 1..Len(s.remote["Transactions"]) :
                s.remote["Transactions"][k].ID <= MaxId
          /\ Finish("process_file", <<>>, s, F, NoGrid)

\* Edit Card (lines 471-481)
CardIdx(cards, name) == {k \in 1..Len(cards) : cards[k].Name = name}

UpdateCardRun(s, F, sel_c, n, l) ==
    The({UpdateRowById(g, F, "Cards", g.df[Min(CardIdx(g.df, sel_c))].ID,
                       [Name |-> n, Limit |-> l], g.df)
         : g \in {GetDf(s, F, "Cards")}})

UpdateCard(sel_c, n, l, F) ==
    LET cards == GetDf(S0, F, "Cards").df
        hit == CardIdx(cards, sel_c)
    IN  /\ hit # {}                             \* the selectbox offers cards['Name']
        /\ Finish("update_card", <<cards[Min(hit)].ID, n, l>>,
                  UpdateCardRun(S0, F, sel_c, n, l), F, NoGrid)

\* Delete Card (lines 483-488)
DeleteCardRun(s, F, del_n) ==
    The({DeleteRowById(g, F, "Cards", g.df[Min(CardIdx(g.df, del_n))].ID)
         : g \in {GetDf(s, F, "Cards")}})

DeleteCard(del_n, F) ==
    /\ CardIdx(GetDf(S0, F, "Cards").df, del_n) # {}
    /\ Finish("delete_card", <<>>, DeleteCardRun(S0, F, del_n), F, NoGrid)

(***************************************************************************)
(* render_credit_cards, Overview tab (lines 337-449).  Amounts are whole   *)
(* numbers, which safe_float leaves as they are; a DueDate cell is a day   *)
(* number or NoDate for a text safe_date cannot read.                      *)
(***************************************************************************)
NoDate == 0

OfPeriod(r, id, y, m) == r.CardID = id /\ r.Year = y /\ r.Month = m

\* df[(df['CardID'] == id) & (df['Year'] == year) & (df['Month'] == month)]
RowsOfPeriod(df, id, y, m) ==
    SelectIdx(df, {k \in 1..Len(df) : OfPeriod(df[k], id, y, m)}, 1)

RECURSIVE SumAmount(_)
SumAmount(df) == IF df = <<>> THEN 0 ELSE Head(df).Amount + SumAmount(Tail(df))

\* mutant: the paid amount is always the statement's Paid field
CardLineStale(row, stmts, cpays, y, m) ==
    LET match == RowsOfPeriod(stmts, row.ID, y, m)
        curr_b == IF match # <<>> THEN match[1].Billed ELSE 0
        curr_p == IF match = <<>> THEN 0 ELSE match[1].Paid
    IN  [curr_b |-> curr_b, curr_p |-> curr_p,
         curr_d |-> IF match # <<>> THEN match[1].DueDate ELSE NoDate,
         rem |-> Max({0, curr_b - curr_p})]

\* lines 350-371 for one card: billed, paid, due date and remaining
CardLine(row, stmts, cpays, y, m) ==
    LET hist_df == RowsOfPeriod(cpays, row.ID, y, m)
        match == RowsOfPeriod(stmts, row.ID, y, m)
        curr_b == IF match # <<>> THEN match[1].Billed ELSE 0
        curr_p == IF match = <<>> THEN 0
                  ELSE IF hist_df # <<>> THEN SumAmount(hist_df)
                  ELSE match[1].Paid
    IN  [curr_b |-> curr_b, curr_p |-> curr_p,
         curr_d |-> IF match # <<>> THEN match[1].DueDate ELSE NoDate,
         rem |-> Max({0, curr_b - curr_p})]

\* safe_date (lines 53-71) on a DueDate cell: None for a text it cannot read
SafeDate(val) == IF val = NoDate THEN <<>> ELSE <<val>>

\* lines 373-383: the status text shown for a card on the day today
StatusText(curr_b, rem, curr_d, today) ==
    IF curr_b > 0
    THEN IF rem <= 1 THEN "Fully Paid"
         ELSE IF SafeDate(curr_d) # <<>>
         THEN IF SafeDate(curr_d)[1] - today < 0 THEN "Overdue by"
              ELSE IF SafeDate(curr_d)[1] - today <= 5 THEN "Due in"
              ELSE "Due:"
         ELSE "No Bill"
    ELSE "No Bill"

\* lines 339-355: the three loads; without cards the page ends at line 346,
\* and a dataframe without columns raises KeyError in the loop over the cards
CardsPage(s, F) ==
    The({IF c.df = <<>>
         THEN [ctx |-> c, cards |-> <<>>, stmts |-> <<>>, cpays |-> <<>>, forms |-> FALSE]
         ELSE The({The({[ctx |-> IF t.cols /\ p.cols THEN p ELSE [p EXCEPT !.exc = EKey],
                         cards |-> c.df, stmts |-> t.df, cpays |-> p.df,
                         forms |-> t.cols /\ p.cols]
                        : p \in {GetDf(t, F, "Card_Payments")}})
                   : t \in {GetDf(c, F, "Statements")}})
         : c \in {GetDf(s, F, "Cards")}})

\* mutant: the old row of the period is kept
NewStmtsKeepOld(stmts, row, y, m, b_amt, d_dt, curr_p) ==
    stmts \o <<[CardID |-> row.ID, Year |-> y, Month |-> m, Billed |-> b_amt,
                Paid |-> curr_p, Unbilled |-> 0, DueDate |-> d_dt]>>

\* lines 422-430: the statements without this card's row of the period, then
\* the new row
NewStmts(stmts, row, y, m, b_amt, d_dt, curr_p) ==
    SelectIdx(stmts, {k \in 1..Len(stmts) : ~OfPeriod(stmts[k], row.ID, y, m)}, 1)
        \o <<[CardID |-> row.ID, Year |-> y, Month |-> m, Billed |-> b_amt,
               Paid |-> curr_p, Unbilled |-> 0, DueDate |-> d_dt]>>

\* Save Statement Info (lines 420-433) in the form of card number i
SaveStatementRun(s, F, i, y, m, b_amt, d_dt) ==
    The({IF ~pg.forms THEN pg.ctx
         ELSE UpdateFullSheet(pg.ctx, F, "Statements",
                              NewStmts(pg.stmts, pg.cards[i], y, m, b_amt, d_dt,
                                       CardLine(pg.cards[i], pg.stmts, pg.cpays, y, m).curr_p))
         : pg \in {CardsPage(s, F)}})

SaveStatement(i, y, m, b_amt, d_dt, F) ==
    \E pg \in {CardsPage(S0, F)} :
        /\ i \in 1..Len(pg.cards)
        /\ Finish("save_statement", <<pg.cards[i].ID, y, m>>,
                  SaveStatementRun(S0, F, i, y, m, b_amt, d_dt), F, NoGrid)

\* Pay Now (lines 437-445) in the form of card number i
PayNowRun(s, F, i, y, m, amt) ==
    The({IF ~pg.forms THEN pg.ctx
         ELSE IF amt <= 0 THEN [pg.ctx EXCEPT !.shown = TRUE]      \* st.error, st.stop
         ELSE AddRow(pg.ctx, F, "Card_Payments",
                     [ID |-> GetNextId(pg.cpays), CardID |-> pg.cards[i].ID, Year |-> y,
                      Month |-> m, Amount |-> amt])
         : pg \in {CardsPage(s, F)}})

PayNow(i, y, m, amt, F) ==
    \E pg \in {CardsPage(S0, F)} :
        /\ i \in 1..Len(pg.cards)
        /\ Finish("pay_now", <<pg.cards[i].ID, y, m, amt>>,
                  PayNowRun(S0, F, i, y, m, amt), F, NoGrid)

(***************************************************************************)
(* check_duplicate (lines 80-90) on names given as sequences of characters.*)
(***************************************************************************)
UpperCase == <<"A", "C", "I", "S", "T", "V">>
LowerCase == <<"a", "c", "i", "s", "t", "v">>

\* str.lower, one character
LowerChar(c) ==
    IF \E k \in 1..Len(UpperCase) : UpperCase[k] = c
    THEN LowerCase[CHOOSE k \in 1..Len(UpperCase) : UpperCase[k] = c]
    ELSE c

Lower(t) == [k \in 1..Len(t) |-> LowerChar(t[k])]

RECURSIVE LStrip(_)
LStrip(t) == IF t # <<>> /\ Head(t) = " " THEN LStrip(Tail(t)) ELSE t

RECURSIVE RStrip(_)
RStrip(t) ==
    IF t # <<>> /\ t[Len(t)] = " " THEN RStrip(SubSeq(t, 1, Len(t) - 1)) ELSE t

\* str.strip
Strip(t) == LStrip(RStrip(t))

\* check_duplicate(df, "Name", value), callers pass no exclude_id
CheckDuplicate(df, value) ==
    /\ df # <<>>
    /\ \E k \in 1..Len(df) : Lower(Strip(df[k].Name)) = Lower(Strip(value))

\* Add Card (lines 455-469), reached when the page got past its loads
AddCardRun(s, F, n, l) ==
    The({IF ~pg.forms THEN pg.ctx
         ELSE IF n = <<>> THEN [pg.ctx EXCEPT !.shown = TRUE]       \* Name is required
         ELSE IF CheckDuplicate(pg.cards, n) THEN [pg.ctx EXCEPT !.shown = TRUE]
         ELSE AddRow(pg.ctx, F, "Cards",
                     [ID |-> GetNextId(pg.cards), Name |-> n, Limit |-> l])
         : pg \in {CardsPage(s, F)}})

AddCard(n, l, F) ==
    Finish("add_card", <<n, l>>, AddCardRun(S0, F, n, l), F, NoGrid)

(***************************************************************************)
(* render_bank_accounts, Update Balances (lines 603-633).  val is the      *)
(* balance typed for every bank of the form.                               *)
(***************************************************************************)
\* lines 613-618: one load of Bank_Balances for each bank of the form
RECURSIVE LoadBalances(_, _, _)
LoadBalances(s, F, k) ==
    IF k = 0 THEN s
    ELSE The({GetDf(c, F, "Bank_Balances") : c \in {LoadBalances(s, F, k - 1)}})

\* lines 624-631: the balances without the rows of the period, then one new
\* row for each bank
NewBalances(df, banks, y, m, val) ==
    SelectIdx(df, {k \in 1..Len(df) : ~(df[k].Year = y /\ df[k].Month = m)}, 1)
        \o [k \in 1..Len(banks) |->
               [BankID |-> banks[k].ID, Year |-> y, Month |-> m, Balance |-> val]]

\* Save All Balances (lines 605-633)
SaveBalancesRun(s, F, y, m, val) ==
    The({The({UpdateFullSheet(d, F, "Bank_Balances", NewBalances(d.df, b.df, y, m, val))
              : d \in {GetDf(LoadBalances(b, F, Len(b.df)), F, "Bank_Balances")}})
         : b \in {GetDf(s, F, "Banks")}})

SaveBalances(y, m, val, F) ==
    Finish("save_balances", <<y, m>>, SaveBalancesRun(S0, F, y, m, val), F, NoGrid)

(***************************************************************************)
(* render_loans, Overview tab (lines 490-549).  A PaymentDate cell holds   *)
(* the text of a date; year and month are the period selected in the       *)
(* sidebar and TodayText is str(date.today()).                             *)
(***************************************************************************)
TodayText == <<"2", "0", "2", "6", "-", "0", "1", "-", "1", "5">>

MonthNames == <<"January", "February", "March", "April", "May", "June", "July",
                "August", "September", "October", "November", "December">>

IsNumeral(t) == t # <<>> /\ \A i \in 1..Len(t) : t[i] \in Range(Digits)

\* the parts of a text between the separators sep
RECURSIVE SplitOn(_, _)
SplitOn(t, sep) ==
    IF \A i \in 1..Len(t) : t[i] # sep THEN <<t>>
    ELSE LET i == CHOOSE j \in 1..Len(t) : t[j] = sep /\ \A h \in 1..(j - 1) : t[h] # sep
         IN  <<SubSeq(t, 1, i - 1)>> \o SplitOn(SubSeq(t, i + 1, Len(t)), sep)

DaysIn(y, m) ==
    IF m = 2 THEN (IF y % 4 = 0 /\ (y % 100 # 0 \/ y % 400 = 0) THEN 29 ELSE 28)
    ELSE IF m \in {4, 6, 9, 11} THEN 30 ELSE 31

NoneDate == [ok |-> FALSE, year |-> 0, month |-> 0]

\* datetime.strptime with three numeric fields: %Y takes four digits, %m and
\* %d one or two
Strptime(y, m, d) ==
    IF /\ IsNumeral(y) /\ Len(y) = 4
       /\ IsNumeral(m) /\ Len(m) <= 2
       /\ IsNumeral(d) /\ Len(d) <= 2
       /\ NumeralVal(y) >= 1
       /\ NumeralVal(m) \in 1..12
       /\ NumeralVal(d) \in 1..DaysIn(NumeralVal(y), NumeralVal(m))
    THEN [ok |-> TRUE, year |-> NumeralVal(y), month |-> NumeralVal(m)]
    ELSE NoneDate

\* safe_date (lines 53-71) on a text, for the formats %Y-%m-%d, %d-%m-%Y,
\* %d/%m/%Y and %Y/%m/%d; the formats with month names and two-digit years
\* are left out
SafeDateText(val) ==
    LET t == Strip(val)
        dash == SplitOn(t, "-")
        slash == SplitOn(t, "/")
    IN  IF t = <<>> THEN NoneDate
        ELSE IF Len(dash) = 3 /\ Strptime(dash[1], dash[2], dash[3]).ok
             THEN Strptime(dash[1], dash[2], dash[3])
        ELSE IF Len(dash) = 3 /\ Strptime(dash[3], dash[2], dash[1]).ok
             THEN Strptime(dash[3], dash[2], dash[1])
        ELSE IF Len(slash) = 3 /\ Strptime(slash[3], slash[2], slash[1]).ok
             THEN Strptime(slash[3], slash[2], slash[1])
        ELSE IF Len(slash) = 3 THEN Strptime(slash[1], slash[2], slash[3])
        ELSE NoneDate

\* line 509: safe_date(x).year == year and safe_date(x).strftime("%B") == month
InPeriod(x, year, month) ==
    /\ SafeDateText(x).ok
    /\ SafeDateText(x).year = year
    /\ MonthNames[SafeDateText(x).month] = month

\* loans[loans['Status'] == 'Active'] (line 497)
ActiveLoans(loans) ==
    SelectIdx(loans, {k \in 1..Len(loans) : loans[k].Status = "Active"}, 1)

\* lines 502-511: a repayment of the loan dated in the selected period
\* (IsPaidAnyYear is the mutant that does not compare the year)
IsPaidAnyYear(repay, id, year, month) ==
    \E k \in 1..Len(repay) :
        /\ repay[k].LoanID = id
        /\ SafeDateText(repay[k].PaymentDate).ok
        /\ MonthNames[SafeDateText(repay[k].PaymentDate).month] = month

IsPaid(repay, id, year, month) ==
    \E k \in 1..Len(repay) :
        repay[k].LoanID = id /\ InPeriod(repay[k].PaymentDate, year, month)

\* lines 492-502: the two loads; a dataframe without columns raises KeyError
\* at the Status filter or, with an active loan, at the LoanID filter
LoansPage(s, F) ==
    The({The({[ctx |-> IF l.cols /\ (r.cols \/ ActiveLoans(l.df) = <<>>) THEN r
                       ELSE [r EXCEPT !.exc = EKey],
               loans |-> l.df, repay |-> r.df,
               active |-> IF l.cols /\ r.cols THEN ActiveLoans(l.df) ELSE <<>>]
              : r \in {GetDf(l, F, "Loan_Repayments")}})
         : l \in {GetDf(s, F, "Loans")}})

\* lines 527-533 and 542-546: the repayment row, then the new Outstanding
RecordRepayment(pg, F, row, amt, typ) ==
    UpdateRowById(
        AddRow(pg.ctx, F, "Loan_Repayments",
               [ID |-> GetNextId(pg.repay), LoanID |-> row.ID, PaymentDate |-> TodayText,
                Amount |-> amt, Type |-> typ]),
        F, "Loans", row.ID, [Outstanding |-> Max({0, row.Outstanding - amt})], pg.loans)

\* Quick Pay (EMI) of active loan number i (lines 526-534)
QuickPayRun(s, F, i) ==
    The({RecordRepayment(pg, F, pg.active[i], pg.active[i].EMI, "EMI")
         : pg \in {LoansPage(s, F)}})

QuickPay(i, year, month, F) ==
    \E pg \in {LoansPage(S0, F)} :
        /\ i \in 1..Len(pg.active)
        /\ ~IsPaid(pg.repay, pg.active[i].ID, year, month)       \* disabled=is_paid
        /\ Finish("loan_quick", <<pg.active[i].ID, pg.active[i].EMI>>,
                  QuickPayRun(S0, F, i), F, NoGrid)

\* Custom Payment / Prepayment of active loan number i (lines 537-547)
CustomPayRun(s, F, i, amt, typ) ==
    The({RecordRepayment(pg, F, pg.active[i], amt, typ) : pg \in {LoansPage(s, F)}})

CustomPay(i, amt, typ, F) ==
    \E pg \in {LoansPage(S0, F)} :
        /\ i \in 1..Len(pg.active)
        /\ Finish("loan_custom", <<pg.active[i].ID, amt>>,
                  CustomPayRun(S0, F, i, amt, typ), F, NoGrid)

(***************************************************************************)
(* update_row_by_id and delete_row_by_id called on the Cards table with    *)
(* any ID.  The collection handed to update_row_by_id is the one a page    *)
(* loaded before, i.e. the cached records.  The calls the function issued  *)
(* are kept in last.grid.saveLog.                                           *)
(***************************************************************************)
CallsOf(s) == [NoGrid EXCEPT !.saveLog = s.log]

UpdateById(id, n, F) ==
    /\ cache["Cards"].has
    /\ \E df \in {cache["Cards"].data} :
          \E s \in {UpdateRowById(S0, F, "Cards", id, [Name |-> n], df)} :
              Finish("update_by_id", <<id, df, PatchedDf(df, id, [Name |-> n])>>, s, F,
                     CallsOf(s))

DeleteById(id, F) ==
    \E s \in {DeleteRowById(S0, F, "Cards", id)} :
        Finish("delete_by_id", <<id>>, s, F, CallsOf(s))

(***************************************************************************)
(* render_active_emis (lines 571-601).  A run of the page shows the Mark   *)
(* Paid button of every active plan it finds unpaid; a click is handled by *)
(* the next run of the page, if that run shows the button again.           *)
(***************************************************************************)
ActiveEmis(emis) ==
    SelectIdx(emis, {k \in 1..Len(emis) : emis[k].Status = "Active"}, 1)

\* lines 582-585
EmiIsPaid(emi_log, id, year, month) ==
    /\ emi_log # <<>>
    /\ \E k \in 1..Len(emi_log) :
          emi_log[k].EMI_ID = id /\ emi_log[k].Year = year /\ emi_log[k].Month = month

\* lines 573-596: the two loads and the plans whose button is shown
EmisPage(s, F, year, month) ==
    The({The({[ctx |-> g,
               emi_log |-> g.df,
               active |-> ActiveEmis(e.df),
               buttons |-> {ActiveEmis(e.df)[k].ID : k \in
                              {j \in 1..Len(ActiveEmis(e.df)) :
                                  ~EmiIsPaid(g.df, ActiveEmis(e.df)[j].ID, year, month)}}]
              : g \in {GetDf(e, F, "EMI_Log")}})
         : e \in {GetDf(s, F, "Active_EMIs")}})

RenderEmis(year, month, F) ==
    \E pg \in {EmisPage(S0, F, year, month)} :
        Finish("emi_page", <<year, month, pg.buttons>>, pg.ctx, F, NoGrid)

\* Mark Paid (lines 597-601) of plan number i among the active ones
MarkPaidRun(s, F, i, year, month) ==
    The({IF i \notin 1..Len(pg.active) \/ pg.active[i].ID \notin pg.buttons THEN pg.ctx
         ELSE AddRow(pg.ctx, F, "EMI_Log",
                     [ID |-> GetNextId(pg.emi_log), EMI_ID |-> pg.active[i].ID,
                      Month |-> month, Year |-> year, Amount |-> pg.active[i].MonthlyEMI])
         : pg \in {EmisPage(s, F, year, month)}})

MarkPaid(i, F) ==
    /\ last.op = "emi_page"                     \* the button clicked was on the page
    /\ \E pg \in {EmisPage(S0, NoFault, last.args[1], last.args[2])} :
          /\ i \in 1..Len(pg.active)
          /\ pg.active[i].ID \in last.args[3]
          /\ Finish("mark_paid", <<pg.active[i].ID, last.args[1], last.args[2]>>,
                    MarkPaidRun(S0, F, i, last.args[1], last.args[2]), F, NoGrid)

(***************************************************************************)
(* init_sheets (lines 209-245).  Here the store maps the title of every    *)
(* worksheet that exists to its lines, and line 1 is the sequence of the   *)
(* header cells.  Schema keeps three of the tables and their first         *)
(* columns.                                                                *)
(***************************************************************************)
SchemaOrder == <<"Config", "Cards", "Banks">>

Schema(name) ==
    CASE name = "Config" -> <<"Key", "Value">>
      [] name = "Cards" -> <<"ID", "Name", "Limit">>
      [] name = "Banks" -> <<"ID", "Name", "Type">>

E400 == <<"4", "0", "0">>          \* add_worksheet: a sheet of that title exists

\* ws.update_cell(1, p, h): cells between the end of the line and p are blank
SetCell(row, p, h) ==
    [k \in 1..Max({Len(row), p}) |->
        IF k = p THEN h ELSE IF k <= Len(row) THEN row[k] ELSE ""]

SetHeaderCell(sheet, p, h) ==
    IF sheet = <<>> THEN <<SetCell(<<>>, p, h)>>
    ELSE [sheet EXCEPT ![1] = SetCell(@, p, h)]

\* lines 242-245: for i, h in enumerate(new_headers): update_cell(1, len(headers) + i + 1, h)
RECURSIVE UpdateCells(_, _, _, _, _, _)
UpdateCells(s, F, name, n, hs, i) ==
    IF i > Len(hs) THEN s
    ELSE The({IF c.exc # OK THEN c
              ELSE UpdateCells([c EXCEPT !.remote[name] = SetHeaderCell(@, n + i, hs[i])],
                               F, name, n, hs, i + 1)
              : c \in {ApiRetry(s, F, "update_cell", 0)}})

\* lines 231-234: a sheet that is not in the list is created with its header
CreateSheet(s, F, name) ==
    The({IF w.exc # OK THEN w
         ELSE IF name \in DOMAIN w.remote THEN [w EXCEPT !.exc = E400]
         ELSE The({IF a.exc # OK THEN a ELSE [a EXCEPT !.remote[name] = <<Schema(name)>>]
                   : a \in {ApiRetry([w EXCEPT !.remote =
                                          [t \in DOMAIN @ \cup {name} |->
                                              IF t \in DOMAIN @ THEN @[t] ELSE <<>>]],
                                     F, "append_row", 0)}})
         : w \in {ApiRetry(s, F, "add_worksheet", 0)}})

\* lines 236-245: the columns missing from line 1 are written behind the
\* headers read; a failed row_values leaves headers = []
SyncHeaders(s, F, name) ==
    The({IF w.exc # OK THEN w
         ELSE The({UpdateCells([r EXCEPT !.exc = OK], F, name,
                               IF r.exc # OK \/ r.remote[name] = <<>> THEN 0
                               ELSE Len(r.remote[name][1]),
                               SelectIdx(Schema(name),
                                         {k \in 1..Len(Schema(name)) :
                                             r.exc # OK \/ r.remote[name] = <<>>
                                             \/ Schema(name)[k] \notin Range(r.remote[name][1])},
                                         1),
                               1)
                   : r \in {ApiRetry(w, F, "row_values", 0)}})
         : w \in {ApiRetry(s, F, "worksheet", 0)}})

\* the loop of line 230 from the k-th table on; existing is the list of line 226
RECURSIVE SheetsFrom(_, _, _, _)
SheetsFrom(s, F, existing, k) ==
    IF k > Len(SchemaOrder) THEN s
    ELSE The({IF c.exc # OK THEN c ELSE SheetsFrom(c, F, existing, k + 1)
              : c \in {IF SchemaOrder[k] \notin existing
                        THEN CreateSheet(s, F, SchemaOrder[k])
                        ELSE SyncHeaders(s, F, SchemaOrder[k])}})

InitSheetsRun(s, F) ==
    The({SheetsFrom([l EXCEPT !.exc = OK], F,
                    IF l.exc # OK THEN {} ELSE DOMAIN l.remote, 1)
         : l \in {ApiRetry(s, F, "worksheets", 0)}})

InitSheets(F) ==
    \E s \in {InitSheetsRun(S0, F)} : Finish("init_sheets", <<>>, s, F, CallsOf(s))

(***************************************************************************)
(* render_dashboard, liabilities (lines 318-328), on the statements loaded *)
(***************************************************************************)
RECURSIVE SumCol(_, _)
SumCol(df, col) == IF df = <<>> THEN 0 ELSE Head(df)[col] + SumCol(Tail(df), col)

Liabilities(stmts, year, month) ==
    LET curr_stmts == SelectIdx(stmts, {k \in 1..Len(stmts) :
                                          stmts[k].Year = year /\ stmts[k].Month = month}, 1)
        bill == SumCol(curr_stmts, "Billed")
        paid == SumCol(curr_stmts, "Paid")
        unbilled == SumCol(curr_stmts, "Unbilled")
    IN  [bill |-> bill, paid |-> paid, unbilled |-> unbilled,
         pending_bills |-> Max({0, bill - paid}),
         total_liability |-> Max({0, bill - paid}) + unbilled]

\* a page render that only loads a table (e.g. lines 339, 652, 677)
View(t, F) ==
    Finish("view", <<t>>, GetDf(S0, F, t), F, NoGrid)

\* Force Refresh Data (lines 791-793)
ForceRefresh ==
    /\ cache # EmptyCache
    /\ Finish("refresh", <<>>, ClearCache(S0), NoFault, NoGrid)

\* time passes: every cache entry grows older (ages past the TTL are alike)
Older(e, d) ==
    IF e.has THEN [e EXCEPT !.age = IF @ + d > TTL THEN TTL ELSE @ + d] ELSE e

Tick(d) ==
    /\ cache' = [t \in Tables |-> Older(cache[t], d)]
    /\ cache' # cache
    /\ last' = [NoLast EXCEPT !.op = "tick"]
    /\ UNCHANGED <<remote, rpc, ri, rcalls, rslept, wpc, wdf, wold, seen, fin, fout, procs>>

(***************************************************************************)
(* Initial states.                                                         *)
(***************************************************************************)
\* k data lines with IDs 1..k and Amount 10, all of period (2026, Jan) or
\* all but the last one
TxRows(k) ==
    {[j \in 1..k |-> [ID |-> j, Year |-> 2026, Amount |-> 10,
                      Month |-> IF j = k THEN m ELSE "Jan"]] : m \in Months}

InitCards == <<HDR, [ID |-> 1, Name |-> "Visa", Limit |-> 1000]>>

\* every worksheet with its header line and no data
EmptyStore == [t \in Tables |-> <<HDR>>]

NoSeen == [read |-> FALSE, rows |-> <<>>, pc |-> "idle", old |-> <<>>, new |-> <<>>]

RetryIdle == rpc = "idle" /\ ri = 0 /\ rcalls = <<>> /\ rslept = 0

WriterIdle == wpc = "idle" /\ wdf = <<>> /\ wold = <<>> /\ seen = NoSeen

FnIdle == fin = <<>> /\ fout = <<>>

ProcsIdle == procs = <<>>

Idle == RetryIdle /\ WriterIdle /\ FnIdle

(***************************************************************************)
(* Spec: the editable grid of the Transactions history.                    *)
(***************************************************************************)
Init ==
    /\ \E rows \in TxRows(MaxRows) :
          remote = [EmptyStore EXCEPT !["Cards"] = InitCards, !["Transactions"] = <<HDR>> \o rows]
    /\ cache = EmptyCache
    /\ last = NoLast
    /\ Idle
    /\ ProcsIdle

\* the rows the grid shows and the calls the save makes when nothing fails
Shown0(y, m) == CurrTx(GetDf(S0, NoFault, "Transactions").df, y, m)
Calls0(y, m, amt, del) == SaveTransactionsRun(S0, NoFault, y, m, amt, del).n

SaveStep(months, amounts, kinds) ==
    \E y \in Years, m \in months :
        \E n \in {Len(Shown0(y, m))} :
            \E amt \in [1..n -> amounts], del \in SUBSET (1..n) :
                \E F \in FaultsUpTo(Calls0(y, m, amt, del), kinds) :
                    SaveTransactions(y, m, amt, del, F)

ViewStep(tables, kinds) ==
    \E t \in tables : \E F \in FaultsUpTo(GetDf(S0, NoFault, t).n, kinds) : View(t, F)

\* a failing call raises the quota error: sh.worksheet is then called again,
\* any other call has failed for good
Next ==
    \/ SaveStep(Months, Amounts, {E429})
    \/ ViewStep({"Transactions"}, {E429})
    \/ ForceRefresh

Spec == Init /\ [][Next]_vars

(***************************************************************************)
(* SpecCache: every write path (add_row, update_full_sheet,                *)
(* delete_row_by_id, bulk import) on Transactions, page loads of both      *)
(* tables and Force Refresh.                                               *)
(***************************************************************************)
InitCache ==
    /\ remote = [EmptyStore EXCEPT
                    !["Cards"] = InitCards,
                    !["Transactions"] =
                        <<HDR, [ID |-> 1, Year |-> 2026, Month |-> "Jan", Amount |-> 10]>>]
    /\ cache = EmptyCache
    /\ last = NoLast
    /\ Idle
    /\ ProcsIdle

AddEntryStep(months, amounts) ==
    \E y \in Years, m \in months, a \in amounts :
        \E F \in FaultsUpTo(AddEntryRun(S0, NoFault, y, m, a).n, FaultKinds) :
            AddEntry(y, m, a, F)

ProcessFileStep(months, files) ==
    \E y \in Years, m \in months, amts \in files :
        \E F \in FaultsUpTo(ProcessFileRun(S0, NoFault, y, m, amts).n, FaultKinds) :
            ProcessFile(y, m, amts, F)

NextCache ==
    \/ SaveStep({"Jan"}, {20}, FaultKinds)
    \/ AddEntryStep({"Jan"}, {10})
    \/ ProcessFileStep({"Jan"}, {<<10>>, <<10, 10>>})
    \/ ViewStep(PageTables, FaultKinds)
    \/ ForceRefresh

SpecCache == InitCache /\ [][NextCache]_vars

(***************************************************************************)
(* SpecTtl: page loads of both tables while the clock runs, with the       *)
(* Manual Add and Force Refresh emptying the cache in between.             *)
(***************************************************************************)
NextTtl ==
    \/ ViewStep(PageTables, FaultKinds)
    \/ AddEntryStep({"Jan"}, {10})
    \/ ForceRefresh
    \/ \E d \in TickSteps : Tick(d)

SpecTtl == InitCache /\ [][NextTtl]_vars

(***************************************************************************)
(* SpecCreate: the create operations on Transactions only, Manual Add and  *)
(* Smart Upload, with page loads and Force Refresh.                        *)
(***************************************************************************)
InitCreate ==
    /\ \E k \in 0..1, rows \in TxRows(1) :
          remote = [EmptyStore EXCEPT !["Cards"] = InitCards,
                                      !["Transactions"] = <<HDR>> \o SubSeq(rows, 1, k)]
    /\ cache = EmptyCache
    /\ last = NoLast
    /\ Idle
    /\ ProcsIdle

NextCreate ==
    \/ AddEntryStep(Months, Amounts)
    \/ ProcessFileStep(Months, {<<10>>, <<10, 20>>})
    \/ ViewStep(PageTables, FaultKinds)
    \/ ForceRefresh

SpecCreate == InitCreate /\ [][NextCreate]_vars

(***************************************************************************)
(* SpecStatements: Save Statement Info and Pay Now for two cards in the    *)
(* period (2026, Jan), beside a statement of another period.               *)
(***************************************************************************)
BilledAmounts == {100, 200}
PayAmounts == {0, 50}
DueDay == 10
MaxPays == 1            \* most payment lines before the last Pay Now of a run

TwoCards == InitCards \o <<[ID |-> 2, Name |-> "Amex", Limit |-> 2000]>>

Stmt(id, m, b, p) ==
    [CardID |-> id, Year |-> 2026, Month |-> m, Billed |-> b, Paid |-> p, Unbilled |-> 0,
     DueDate |-> DueDay]

InitStatements ==
    /\ remote = [EmptyStore EXCEPT
                    !["Cards"] = TwoCards,
                    !["Statements"] = <<HDR, Stmt(1, "Feb", 100, 0), Stmt(1, "Jan", 100, 0)>>]
    /\ cache = EmptyCache
    /\ last = NoLast
    /\ Idle
    /\ ProcsIdle

PageFaults == {E429, EWNF}

SaveStatementStep ==
    \E i \in 1..2, b_amt \in BilledAmounts :
        \E F \in FaultsUpTo(SaveStatementRun(S0, NoFault, i, 2026, "Jan", b_amt, DueDay).n,
                            PageFaults) :
            SaveStatement(i, 2026, "Jan", b_amt, DueDay, F)

PayNowStep ==
    \E i \in 1..2, amt \in PayAmounts :
        /\ Len(remote["Card_Payments"]) <= MaxPays
        /\ \E F \in FaultsUpTo(PayNowRun(S0, NoFault, i, 2026, "Jan", amt).n, PageFaults) :
               PayNow(i, 2026, "Jan", amt, F)

NextStatements ==
    \/ SaveStatementStep
    \/ PayNowStep
    \/ ForceRefresh

SpecStatements == InitStatements /\ [][NextStatements]_vars

(***************************************************************************)
(* SpecBalances: Save All Balances for the period (2026, Jan) with two     *)
(* banks and a balance of another period in the table.  Up to two calls    *)
(* of a handler fail.                                                      *)
(***************************************************************************)
Balances == {100, 200}

InitBanks == <<HDR, [ID |-> 1, Name |-> "HDFC"], [ID |-> 2, Name |-> "SBI"]>>

Bal(id, m, v) == [BankID |-> id, Year |-> 2026, Month |-> m, Balance |-> v]

InitBalances ==
    /\ remote = [EmptyStore EXCEPT
                    !["Banks"] = InitBanks,
                    !["Bank_Balances"] = <<HDR, Bal(1, "Feb", 100), Bal(1, "Jan", 100)>>]
    /\ cache = EmptyCache
    /\ last = NoLast
    /\ Idle
    /\ ProcsIdle

SaveBalancesStep ==
    \E val \in Balances :
        \E n \in {SaveBalancesRun(S0, NoFault, 2026, "Jan", val).n} :
            \E F \in FaultsUpTo(n, FaultKinds) \cup FaultsTwice(n, {E404}) :
                SaveBalances(2026, "Jan", val, F)

NextBalances ==
    \/ SaveBalancesStep
    \/ ViewStep({"Banks", "Bank_Balances"}, FaultKinds)
    \/ ForceRefresh

SpecBalances == InitBalances /\ [][NextBalances]_vars

(***************************************************************************)
(* SpecPayments: the payment forms.  Quick Pay and Custom Payment on an    *)
(* active loan beside a closed one, Pay Now on two cards.                  *)
(***************************************************************************)
CustomAmounts == {-50, 0, 50}

Loan(id, emi, out, status) ==
    [ID |-> id, EMI |-> emi, Outstanding |-> out, Status |-> status]

InitPayments ==
    /\ remote = [EmptyStore EXCEPT
                    !["Cards"] = TwoCards,
                    !["Statements"] = <<HDR, Stmt(1, "Jan", 100, 0)>>,
                    !["Loans"] = <<HDR, Loan(1, 0, 0, "Closed"), Loan(2, 60, 100, "Active")>>]
    /\ cache = EmptyCache
    /\ last = NoLast
    /\ Idle
    /\ ProcsIdle

QuickPayStep ==
    \E month \in {"January", "February"} :
        /\ Len(remote["Loan_Repayments"]) <= MaxPays
        /\ \E F \in FaultsUpTo(QuickPayRun(S0, NoFault, 1).n, FaultKinds) :
               QuickPay(1, 2026, month, F)

CustomPayStep ==
    \E amt \in CustomAmounts :
        /\ Len(remote["Loan_Repayments"]) <= MaxPays
        /\ \E F \in FaultsUpTo(CustomPayRun(S0, NoFault, 1, amt, "Prepayment").n, FaultKinds) :
               CustomPay(1, amt, "Prepayment", F)

NextPayments ==
    \/ QuickPayStep
    \/ CustomPayStep
    \/ PayNowStep
    \/ ForceRefresh

SpecPayments == InitPayments /\ [][NextPayments]_vars

(***************************************************************************)
(* SpecCards: Edit Card and Delete Card on the Cards table.                *)
(***************************************************************************)
UpdateCardStep ==
    \E sel_c \in Names, n \in Names, l \in Limits :
        /\ CardIdx(GetDf(S0, NoFault, "Cards").df, sel_c) # {}
        /\ \E F \in FaultsUpTo(UpdateCardRun(S0, NoFault, sel_c, n, l).n, FaultKinds) :
              UpdateCard(sel_c, n, l, F)

DeleteCardStep ==
    \E del_n \in Names :
        /\ CardIdx(GetDf(S0, NoFault, "Cards").df, del_n) # {}
        /\ \E F \in FaultsUpTo(DeleteCardRun(S0, NoFault, del_n).n, FaultKinds) :
              DeleteCard(del_n, F)

InitCardsSpec ==
    /\ remote = [EmptyStore EXCEPT
                    !["Cards"] = InitCards \o <<[ID |-> 2, Name |-> "Amex", Limit |-> 2000]>>]
    /\ cache = EmptyCache
    /\ last = NoLast
    /\ Idle
    /\ ProcsIdle

NextCards ==
    \/ UpdateCardStep
    \/ DeleteCardStep
    \/ ViewStep({"Cards"}, FaultKinds)
    \/ ForceRefresh

SpecCards == InitCardsSpec /\ [][NextCards]_vars

\* the records of the Transactions worksheet, now and after the step
TxNow == Records("Transactions", remote["Transactions"])
TxNext == Records("Transactions", remote'["Transactions"])

(***************************************************************************)
(* SpecNames: Add Card and Edit Card on cards whose names are sequences of *)
(* characters.                                                             *)
(***************************************************************************)
Visa == <<"V", "i", "s", "a">>
VisaTyped == <<" ", "v", "i", "s", "a">>
Citi == <<"C", "i", "t", "i">>

CardNames == {Visa, VisaTyped, Citi, <<>>}

InitNames ==
    /\ remote = [EmptyStore EXCEPT
                    !["Cards"] = <<HDR, [ID |-> 1, Name |-> Visa, Limit |-> 1000]>>]
    /\ cache = EmptyCache
    /\ last = NoLast
    /\ Idle
    /\ ProcsIdle

AddCardStep ==
    \E n \in CardNames :
        /\ Len(remote["Cards"]) <= MaxRows
        /\ GetNextId(GetDf(S0, NoFault, "Cards").df) <= MaxId
        /\ \E F \in FaultsUpTo(AddCardRun(S0, NoFault, n, 1000).n, FaultKinds) :
               AddCard(n, 1000, F)

EditCardStep ==
    \E sel_c \in CardNames, n \in CardNames :
        /\ CardIdx(GetDf(S0, NoFault, "Cards").df, sel_c) # {}
        /\ \E F \in FaultsUpTo(UpdateCardRun(S0, NoFault, sel_c, n, 1000).n, FaultKinds) :
               UpdateCard(sel_c, n, 1000, F)

NextNames ==
    \/ AddCardStep
    \/ EditCardStep
    \/ ForceRefresh

SpecNames == InitNames /\ [][NextNames]_vars

(***************************************************************************)
(* SpecById: update_row_by_id and delete_row_by_id with IDs that are and   *)
(* are not in the table, on two cards and on three cards two of which      *)
(* share an ID.                                                            *)
(***************************************************************************)
SharedIdCards ==
    <<HDR, [ID |-> 2, Name |-> "Visa", Limit |-> 1000],
           [ID |-> 1, Name |-> "Amex", Limit |-> 1000],
           [ID |-> 1, Name |-> "Visa", Limit |-> 2000]>>

InitById ==
    /\ remote \in {[EmptyStore EXCEPT !["Cards"] = sheet] : sheet \in {TwoCards, SharedIdCards}}
    /\ cache = EmptyCache
    /\ last = NoLast
    /\ Idle
    /\ ProcsIdle

UpdateByIdStep ==
    \E id \in 1..MaxId, n \in Names :
        \E F \in FaultsUpTo(4, FaultKinds) : UpdateById(id, n, F)

DeleteByIdStep ==
    \E id \in 1..MaxId :
        \E F \in FaultsUpTo(3, FaultKinds) : DeleteById(id, F)

NextById ==
    \/ UpdateByIdStep
    \/ DeleteByIdStep
    \/ ViewStep({"Cards"}, FaultKinds)
    \/ ForceRefresh

SpecById == InitById /\ [][NextById]_vars

(***************************************************************************)
(* SpecEmis: the Credit Card EMIs page with an active and a closed plan.   *)
(***************************************************************************)
Plan(id, emi, status) == [ID |-> id, MonthlyEMI |-> emi, Status |-> status]

InitEmis ==
    /\ remote = [EmptyStore EXCEPT
                    !["Active_EMIs"] = <<HDR, Plan(1, 0, "Closed"), Plan(2, 100, "Active")>>]
    /\ cache = EmptyCache
    /\ last = NoLast
    /\ Idle
    /\ ProcsIdle

RenderEmisStep ==
    \E month \in Months :
        \E F \in FaultsUpTo(EmisPage(S0, NoFault, 2026, month).ctx.n, FaultKinds) :
            RenderEmis(2026, month, F)

MarkPaidStep ==
    /\ Len(remote["EMI_Log"]) <= MaxRows
    /\ last.op = "emi_page"
    /\ \E F \in FaultsUpTo(MarkPaidRun(S0, NoFault, 1, last.args[1], last.args[2]).n + 2,
                            FaultKinds) :
          MarkPaid(1, F)

NextEmis ==
    \/ RenderEmisStep
    \/ MarkPaidStep
    \/ ForceRefresh

SpecEmis == InitEmis /\ [][NextEmis]_vars

(***************************************************************************)
(* SpecInit: init_sheets on a spreadsheet in which each table of Schema is *)
(* missing, empty, or has a header that is complete, partial, or holds     *)
(* other columns in another order.                                         *)
(***************************************************************************)
StartSheets(name) ==
    {<<>>, <<Schema(name)>>, <<SubSeq(Schema(name), 1, 1)>>,
     <<<<Schema(name)[2], "Custom", Schema(name)[1]>>>>}

InitInit ==
    /\ remote \in UNION {{f \in [D -> UNION {StartSheets(t) : t \in D}] :
                              \A t \in D : f[t] \in StartSheets(t)}
                         : D \in SUBSET Range(SchemaOrder)}
    /\ cache = EmptyCache
    /\ last = NoLast
    /\ Idle
    /\ ProcsIdle

InitSheetsStep ==
    \E F \in FaultsUpTo(InitSheetsRun(S0, NoFault).n, FaultKinds) : InitSheets(F)
    /\ ProcsIdle

SpecInit == InitInit /\ [][InitSheetsStep]_vars

(***************************************************************************)
(* SpecLostUpdate: two server processes edit the Cards table.  Each has    *)
(* its own st.cache_data (lines 122-127) and runs get_df, update_row_by_id *)
(* (lines 178-187) and the calls of update_full_sheet (lines 162-171) one  *)
(* remote call at a time; nothing orders the calls of the two processes.   *)
(***************************************************************************)
Procs == {1, 2}

NewProc == [pc |-> "idle", cache |-> EmptyCache, df |-> <<>>, id |-> 0, patch |-> <<>>,
            rv |-> "None", sawDone |-> {}]

\* the execution context of process p: the shared spreadsheet, its own cache
ProcCtx(p) == [S0 EXCEPT !.cache = procs[p].cache]

\* the processes whose update is complete
ProcsDone == {q \in Procs : procs[q].pc = "done"}

\* each process edits a column of its own
ProcPatches(p) == IF p = 1 THEN {[Name |-> "Gold"]} ELSE {[Limit |-> 5000]}

ProcFrame ==
    UNCHANGED <<cache, last, rpc, ri, rcalls, rslept, wpc, wdf, wold, seen, fin, fout>>

\* get_df on a page render of process p (line 339): fills p's cache
ProcView(p) ==
    /\ procs[p].pc = "idle"
    /\ ~procs[p].cache["Cards"].has
    /\ \E F \in FaultsUpTo(1, {E404}) :
          \E s \in {GetDf(ProcCtx(p), F, "Cards")} :
              procs' = [procs EXCEPT ![p].cache = s.cache,
                                     ![p].sawDone = IF s.cache["Cards"].has
                                                    THEN ProcsDone ELSE @]
    /\ UNCHANGED remote
    /\ ProcFrame

\* get_df (line 339), then update_row_by_id (lines 178-184) on the dataframe
\* it returned: the row is found and changed in memory
ProcBegin(p) ==
    /\ procs[p].pc = "idle"
    /\ \E id \in 1..MaxId, patch \in ProcPatches(p), F \in FaultsUpTo(1, {E404}) :
          \E s \in {GetDf(ProcCtx(p), F, "Cards")} :
              procs' = [procs EXCEPT
                  ![p].cache = s.cache,
                  ![p].sawDone = IF ~procs[p].cache["Cards"].has /\ s.cache["Cards"].has
                                 THEN ProcsDone ELSE @,
                  ![p].id = id,
                  ![p].patch = patch,
                  ![p].df = PatchedDf(s.df, id, patch),
                  ![p].rv = IF ~s.cols THEN "None"
                            ELSE IF IdxOfId(s.df, id) = {} THEN "False" ELSE "True",
                  ![p].pc = IF ~s.cols THEN "failed"                  \* KeyError, line 179
                            ELSE IF IdxOfId(s.df, id) = {} THEN "done"
                            ELSE "clear"]
    /\ UNCHANGED remote
    /\ ProcFrame

\* one call of update_full_sheet; an exception ends it (line 170)
ProcStep(p, from, to, s) ==
    /\ procs[p].pc = from
    /\ remote' = s.remote
    /\ procs' = [procs EXCEPT ![p].pc = IF s.exc = OK THEN to ELSE "failed",
                              ![p].cache = IF s.exc = OK /\ to = "done"
                                           THEN EmptyCache ELSE @]   \* line 169
    /\ ProcFrame

\* lines 164-165
ProcClear(p) ==
    \E F \in FaultsUpTo(2, {E404}) :
        ProcStep(p, "clear", "header", WsClear(Worksheet(ProcCtx(p), F), F, "Cards"))

\* line 166
ProcHeader(p) ==
    \E F \in FaultsUpTo(1, {E404}) :
        ProcStep(p, "header", "data", WsAppendRow(ProcCtx(p), F, "Cards", HDR))

\* lines 167-169
ProcData(p) ==
    \E F \in FaultsUpTo(1, {E404}) :
        ProcStep(p, "data", "done", WsAppendRows(ProcCtx(p), F, "Cards", procs[p].df))

InitLostUpdate ==
    /\ remote = [EmptyStore EXCEPT !["Cards"] = TwoCards]
    /\ cache = EmptyCache
    /\ last = NoLast
    /\ Idle
    /\ procs = [p \in Procs |-> NewProc]

ProcViewStep == \E p \in Procs : ProcView(p)

ProcBeginStep == \E p \in Procs : ProcBegin(p)

ProcClearStep == \E p \in Procs : ProcClear(p)

ProcHeaderStep == \E p \in Procs : ProcHeader(p)

ProcDataStep == \E p \in Procs : ProcData(p)

NextLostUpdate ==
    ProcViewStep \/ ProcBeginStep \/ ProcClearStep \/ ProcHeaderStep \/ ProcDataStep

SpecLostUpdate == InitLostUpdate /\ [][NextLostUpdate]_vars

(***************************************************************************)
(* SpecDupId: two server processes add a transaction (lines 668-670).  Each *)
(* computes the ID from its own get_df, then add_row appends the line; the *)
(* fetch and the append are remote calls that nothing orders between the   *)
(* processes, and append_row takes any line whatever its ID.               *)
(***************************************************************************)
\* get_df on a page render of process p (line 652): fills p's cache
ProcViewTx(p) ==
    /\ procs[p].pc = "idle"
    /\ ~procs[p].cache["Transactions"].has
    /\ \E F \in FaultsUpTo(1, {E404}) :
          \E s \in {GetDf(ProcCtx(p), F, "Transactions")} :
              procs' = [procs EXCEPT ![p].cache = s.cache,
                                     ![p].sawDone = IF s.cache["Transactions"].has
                                                    THEN ProcsDone ELSE @]
    /\ UNCHANGED remote
    /\ ProcFrame

\* line 669: tid = get_next_id(get_df(sh, "Transactions"))
ProcNextId(p) ==
    /\ procs[p].pc = "idle"
    /\ \E amt \in Amounts, F \in FaultsUpTo(1, {E404}) :
          \E s \in {GetDf(ProcCtx(p), F, "Transactions")} :
              procs' = [procs EXCEPT
                  ![p].cache = s.cache,
                  ![p].sawDone = IF ~procs[p].cache["Transactions"].has
                                      /\ s.cache["Transactions"].has
                                 THEN ProcsDone ELSE @,
                  ![p].id = IF s.cols THEN GetNextId(s.df) ELSE 1,      \* line 75
                  ![p].df = <<[ID |-> IF s.cols THEN GetNextId(s.df) ELSE 1,
                               Year |-> 2026, Month |-> "Jan", Amount |-> amt]>>,
                  ![p].pc = "append"]
    /\ UNCHANGED remote
    /\ ProcFrame

\* line 670: add_row (lines 173-176); an exception reaches the caller
ProcAppend(p) ==
    /\ procs[p].pc = "append"
    /\ \E F \in FaultsUpTo(2, {E404}) :
          \E s \in {AddRow(ProcCtx(p), F, "Transactions", procs[p].df[1])} :
              /\ remote' = s.remote
              /\ procs' = [procs EXCEPT ![p].cache = s.cache,
                                        ![p].rv = IF s.exc = OK THEN "None" ELSE "raised",
                                        ![p].pc = IF s.exc = OK THEN "done" ELSE "failed"]
    /\ ProcFrame

InitDupId ==
    /\ \E k \in 0..MaxRows :
          \E rows \in TxRows(k) :
              remote = [EmptyStore EXCEPT !["Transactions"] = <<HDR>> \o rows]
    /\ cache = EmptyCache
    /\ last = NoLast
    /\ Idle
    /\ procs = [p \in Procs |-> NewProc]

ProcViewTxStep == \E p \in Procs : ProcViewTx(p)

ProcNextIdStep == \E p \in Procs : ProcNextId(p)

ProcAppendStep == \E p \in Procs : ProcAppend(p)

NextDupId == ProcViewTxStep \/ ProcNextIdStep \/ ProcAppendStep

SpecDupId == InitDupId /\ [][NextDupId]_vars

(***************************************************************************)
(* SpecRetry: api_retry (lines 111-120) one call of the wrapped function   *)
(* at a time; each call returns or raises one of Outcomes.                 *)
(***************************************************************************)
Outcomes == {OK, E429, EQ429, E404, E403}

InitRetry ==
    /\ remote = EmptyStore
    /\ cache = EmptyCache
    /\ last = NoLast
    /\ rpc = "loop" /\ ri = 0 /\ rcalls = <<>> /\ rslept = 0
    /\ WriterIdle /\ FnIdle
    /\ ProcsIdle

\* lines 113-119: one round of the for loop
Attempt ==
    /\ rpc = "loop"
    /\ \E out \in Outcomes :
          /\ rcalls' = Append(rcalls, out)
          /\ IF RetryStep(ri, out) = "return"
                THEN rpc' = "returned" /\ UNCHANGED <<ri, rslept>>
             ELSE IF RetryStep(ri, out) = "continue"
                THEN /\ rslept' = rslept + 3 * (ri + 1)     \* time.sleep((i+1)*1.5)
                     /\ ri' = ri + 1
                     /\ rpc' = IF ri + 1 < RetryLoops THEN "loop" ELSE "final"
             ELSE rpc' = "raised" /\ UNCHANGED <<ri, rslept>>
    /\ UNCHANGED <<remote, cache, last, wpc, wdf, wold, seen, fin, fout, procs>>

\* line 120: the call after the loop, returned or raised as it is
FinalAttempt ==
    /\ rpc = "final"
    /\ \E out \in Outcomes :
          /\ rcalls' = Append(rcalls, out)
          /\ rpc' = IF out = OK THEN "returned" ELSE "raised"
    /\ UNCHANGED <<remote, cache, last, ri, rslept, wpc, wdf, wold, seen, fin, fout, procs>>

NextRetry == Attempt \/ FinalAttempt

SpecRetry == InitRetry /\ [][NextRetry]_vars /\ WF_vars(NextRetry)

(***************************************************************************)
(* SpecReplace: update_full_sheet (lines 162-171) one remote call at a     *)
(* time, with a reader of the same worksheet (another session's            *)
(* get_all_records) between any two calls.                                 *)
(***************************************************************************)
FailFirst == [at |-> {1}, kind |-> E404]

InitReplace ==
    /\ \E rows \in TxRows(MaxRows) :
          /\ remote = [EmptyStore EXCEPT !["Cards"] = InitCards,
                                          !["Transactions"] = <<HDR>> \o rows]
          /\ wold = rows /\ wdf = rows
    /\ cache = EmptyCache
    /\ last = NoLast
    /\ RetryIdle /\ FnIdle
    /\ wpc = "idle" /\ seen = NoSeen
    /\ ProcsIdle

WStep(from, to, s) ==
    /\ wpc = from
    /\ remote' = s.remote
    /\ wpc' = IF s.exc = OK THEN to ELSE "idle"     \* line 170: except, st.error
    /\ UNCHANGED <<cache, last, rpc, ri, rcalls, rslept, fin, fout, procs>>

\* line 165, entered with a dataframe of the caller
WBegin ==
    \E amt \in [1..Len(TxNow) -> Amounts], keep \in SUBSET (1..Len(TxNow)), F \in {NoFault, FailFirst} :
        /\ TxNow # <<>>
        /\ WStep("idle", "clear", Worksheet(S0, F))
        /\ IF F = NoFault
              THEN wdf' = SelectIdx(EditedDf(TxNow, amt), keep, 1) /\ wold' = TxNow
              ELSE UNCHANGED <<wdf, wold>>
        /\ seen' = NoSeen                       \* what was read during this replace

\* line 166
WClear ==
    /\ \E F \in {NoFault, FailFirst} : WStep("clear", "header", WsClear(S0, F, "Transactions"))
    /\ UNCHANGED <<wdf, wold, seen>>

\* line 167
WHeader ==
    /\ \E F \in {NoFault, FailFirst} :
          WStep("header", "data", WsAppendRow(S0, F, "Transactions", HDR))
    /\ UNCHANGED <<wdf, wold, seen>>

\* line 168
WData ==
    /\ \E F \in {NoFault, FailFirst} :
          WStep("data", "idle", WsAppendRows(S0, F, "Transactions", wdf))
    /\ UNCHANGED <<wdf, wold, seen>>

\* another session reads the worksheet
Read ==
    /\ seen' = [read |-> TRUE, rows |-> WsGetAllRecords(S0, NoFault, "Transactions").df,
                pc |-> wpc, old |-> wold, new |-> wdf]
    /\ UNCHANGED <<remote, cache, last, rpc, ri, rcalls, rslept, wpc, wdf, wold, fin, fout, procs>>

NextReplace == WBegin \/ WClear \/ WHeader \/ WData \/ Read

SpecReplace == InitReplace /\ [][NextReplace]_vars

(***************************************************************************)
(* SpecNextId: get_next_id on its own, called once with a dataframe whose  *)
(* ID column holds up to MaxCol cells.                                     *)
(***************************************************************************)
QuietStore ==
    /\ remote = EmptyStore
    /\ cache = EmptyCache
    /\ last = NoLast
    /\ RetryIdle /\ WriterIdle

IdCells ==
    {IntCell(1), IntCell(3), IntCell(7), StrCell(<<"a", "b", "c">>), StrCell(<<"1", "2">>),
     StrCell(<<>>), NoneCell}

IdFrames ==
    UNION {[hasId : {TRUE}, ids : [1..n -> IdCells]] \cup
           [hasId : {FALSE}, ids : [1..n -> {NoneCell}]] : n \in 0..MaxCol}

InitNextId ==
    /\ QuietStore
    /\ fin \in {<<f>> : f \in IdFrames}
    /\ fout = <<>>
    /\ ProcsIdle

CallGetNextId ==
    /\ fout = <<>>
    /\ fout' = <<GetNextIdOf(fin[1])>>
    /\ UNCHANGED <<remote, cache, last, rpc, ri, rcalls, rslept, wpc, wdf, wold, seen, fin, procs>>

SpecNextId == InitNextId /\ [][CallGetNextId]_vars

(***************************************************************************)
(* SpecPaid: lines 350-371 for card 1 and the period (2026, Jan), on a     *)
(* statement of that period and up to MaxRows payments of two cards and    *)
(* two periods.                                                            *)
(***************************************************************************)
PaidBilled == {1000, 5000}
PaidStale == {0, 500, 6000}
PaidAmounts == {1000, 2000}

PaidStmts ==
    UNION {{<<Stmt(1, "Jan", b, p)>>, <<Stmt(1, "Feb", 100, 0), Stmt(1, "Jan", b, p)>>}
           : b \in PaidBilled, p \in PaidStale}

Payment(k, id, m, a) == [ID |-> k, CardID |-> id, Year |-> 2026, Month |-> m, Amount |-> a]

PaidLedgers ==
    UNION {{[k \in 1..n |-> Payment(k, c[k][1], c[k][2], c[k][3])]
            : c \in [1..n -> {1, 2} \X Months \X PaidAmounts]} : n \in 0..MaxRows}

InitPaid ==
    /\ QuietStore
    /\ fin \in PaidStmts \X PaidLedgers
    /\ fout = <<>>
    /\ ProcsIdle

CallCardLine ==
    /\ fout = <<>>
    /\ fout' = <<CardLine(InitCards[2], fin[1], fin[2], 2026, "Jan")>>
    /\ UNCHANGED <<remote, cache, last, rpc, ri, rcalls, rslept, wpc, wdf, wold, seen, fin, procs>>

SpecPaid == InitPaid /\ [][CallCardLine]_vars

(***************************************************************************)
(* SpecStatus: lines 371-383 on a billed amount, a paid amount and a due   *)
(* date, read on the day Today.                                            *)
(***************************************************************************)
Today == 10
StatusBilled == {0, 1, 1000, 5000}
StatusPaid == {0, 999, 1000, 5000}
StatusDates == {NoDate, Today - 1, Today, Today + 3, Today + 5, Today + 6}

InitStatus ==
    /\ QuietStore
    /\ fin \in StatusBilled \X StatusPaid \X StatusDates
    /\ fout = <<>>
    /\ ProcsIdle

CallStatus ==
    /\ fout = <<>>
    /\ fout' = <<StatusText(fin[1], Max({0, fin[1] - fin[2]}), fin[3], Today)>>
    /\ UNCHANGED <<remote, cache, last, rpc, ri, rcalls, rslept, wpc, wdf, wold, seen, fin, procs>>

SpecStatus == InitStatus /\ [][CallStatus]_vars

(***************************************************************************)
(* SpecLoad: one get_df (lines 129-160) of any schema table, with the      *)
(* Cards worksheet missing its lines, holding only its header, holding a   *)
(* card, or holding data lines and no header, and with one of the calls    *)
(* failing.                                                                *)
(***************************************************************************)
LoadSheets == {<<>>, <<HDR>>, InitCards, Tail(TwoCards)}
LoadCalls == 2          \* sh.worksheet and get_all_records

InitLoad ==
    /\ remote \in {[EmptyStore EXCEPT !["Cards"] = sheet] : sheet \in LoadSheets}
    /\ cache = EmptyCache
    /\ last = NoLast
    /\ RetryIdle /\ WriterIdle
    /\ fin \in Tables \X FaultsUpTo(LoadCalls, FaultKinds \cup {EWNF, E403})
    /\ fout = <<>>
    /\ ProcsIdle

CallGetDf ==
    /\ fout = <<>>
    /\ \E g \in {GetDf(S0, fin[2], fin[1])} :
          /\ fout' = <<[raised |-> g.exc # OK, cols |-> g.cols, df |-> g.df]>>
          /\ cache' = g.cache
    /\ UNCHANGED <<remote, last, rpc, ri, rcalls, rslept, wpc, wdf, wold, seen, fin, procs>>

SpecLoad == InitLoad /\ [][CallGetDf]_vars

(***************************************************************************)
(* SpecLoanPaid: lines 502-511 for loan 1 and a selected period, on up to  *)
(* MaxRows repayments of loans 1 and 2 whose PaymentDate cells are dates   *)
(* in several formats, texts that are no date, or empty.                   *)
(***************************************************************************)
Jan15Dmy == <<"1", "5", "-", "0", "1", "-", "2", "0", "2", "6">>
Feb01Slash == <<"0", "1", "/", "0", "2", "/", "2", "0", "2", "6">>
Jan15LastYear == <<"2", "0", "2", "5", "-", "0", "1", "-", "1", "5">>
Month13 == <<"2", "0", "2", "6", "-", "1", "3", "-", "0", "1">>
Feb30 == <<"2", "0", "2", "6", "-", "0", "2", "-", "3", "0">>
NoDateText == <<"s", "o", "o", "n">>

DateTexts == {TodayText, Jan15Dmy, Feb01Slash, Jan15LastYear, Month13, Feb30, NoDateText, <<>>}

Repayment(k, id, x, a) ==
    [ID |-> k, LoanID |-> id, PaymentDate |-> x, Amount |-> a, Type |-> "EMI"]

RepayLedgers ==
    UNION {{[k \in 1..n |-> Repayment(k, c[k][1], c[k][2], c[k][3])]
            : c \in [1..n -> {1, 2} \X DateTexts \X {0, 60}]} : n \in 0..MaxRows}

InitLoanPaid ==
    /\ QuietStore
    /\ fin \in RepayLedgers \X {2026} \X {"January", "February"}
    /\ fout = <<>>
    /\ ProcsIdle

CallIsPaid ==
    /\ fout = <<>>
    /\ fout' = <<IsPaid(fin[1], 1, fin[2], fin[3])>>
    /\ UNCHANGED <<remote, cache, last, rpc, ri, rcalls, rslept, wpc, wdf, wold, seen, fin, procs>>

SpecLoanPaid == InitLoanPaid /\ [][CallIsPaid]_vars

(***************************************************************************)
(* SpecDashboard: the dashboard's liabilities and the card page's paid     *)
(* amounts computed for (2026, Jan) from the same statements and payments. *)
(***************************************************************************)
StmtU(id, m, b, p, u) == [Stmt(id, m, b, p) EXCEPT !.Unbilled = u]

DashStmts ==
    UNION {{<<StmtU(1, "Jan", b, p, u)>>,
            <<StmtU(1, "Jan", b, p, u), StmtU(2, "Jan", 1000, 0, 0)>>,
            <<StmtU(1, "Feb", 100, 0, 300), StmtU(1, "Jan", b, p, u)>>}
           : b \in PaidBilled, p \in PaidStale, u \in {0, 300}}

InitDashboard ==
    /\ QuietStore
    /\ fin \in DashStmts \X PaidLedgers
    /\ fout = <<>>
    /\ ProcsIdle

CallDashboard ==
    /\ fout = <<>>
    /\ fout' = <<Liabilities(fin[1], 2026, "Jan"),
                 [k \in 1..Len(TwoCards) - 1 |->
                     CardLine(TwoCards[k + 1], fin[1], fin[2], 2026, "Jan").curr_p]>>
    /\ UNCHANGED <<remote, cache, last, rpc, ri, rcalls, rslept, wpc, wdf, wold, seen, fin, procs>>

SpecDashboard == InitDashboard /\ [][CallDashboard]_vars

(***************************************************************************)
(* Properties.                                                             *)
(***************************************************************************)
Mutations == {"clear", "append_row", "append_rows", "delete_rows"}

FreshEntry(t, sheet) == [has |-> TRUE, data |-> Records(t, sheet), age |-> 0]

\* C1: after a grid save that reported no error, no row that was flagged for
\* deletion is present in the remote table.
C1_NoResurrection ==
    (last.op = "save_grid" /\ ~last.shown)
        => \A k \in 1..Len(TxNow) : TxNow[k].ID \notin last.grid.flagged

\* C2: a grid save with at least one row flagged issues no mutation other than
\* positional deletes, and leaves every unflagged row as it was in the table.
C2_DeleteOnly ==
    [][(last'.op = "save_grid" /\ last'.grid.flagged # {})
         => /\ \A c \in Range(last'.grid.saveLog) : c \in Mutations => c = "delete_rows"
            /\ \A k \in 1..Len(TxNow) :
                  TxNow[k].ID \notin last'.grid.flagged => TxNow[k] \in Range(TxNext)]_vars

\* C3: a grid save on the rows of one period, with edits and no deletion flag,
\* leaves every row of the other periods present and unchanged.
C3_OtherPeriodsKept ==
    [][(last'.op = "save_grid" /\ last'.grid.flagged = {} /\ last'.grid.edited)
         => \A k \in 1..Len(TxNow) :
               <<TxNow[k].Year, TxNow[k].Month>> # last'.args => TxNow[k] \in Range(TxNext)]_vars

\* C4: a grid save with no deletion flag and no edited field issues no remote
\* call and changes neither the remote table nor the cache (the cache holds at
\* most what loading the grid put there).
C4_NoChangeNoCall ==
    [][(last'.op = "save_grid" /\ last'.grid.flagged = {} /\ ~last'.grid.edited)
         => /\ last'.grid.saveLog = <<>>
            /\ remote' = remote
            /\ ~last'.wrote
            /\ \/ cache' = cache
               \/ cache' = [cache EXCEPT !["Transactions"] =
                               FreshEntry("Transactions", remote["Transactions"])]]_vars

C4_Witness ==
    last.op = "save_grid" /\ last.grid.flagged = {} /\ ~last.grid.edited

\* C5: after a handler in which a write function completed, the cache holds no
\* entry for any table, and the page load that follows reads the remote table.
C5_WriteClearsCache ==
    [][/\ last'.wrote => cache' = EmptyCache
       /\ (last.wrote /\ last'.op = "view" /\ last'.fkind = OK)
            => cache'[last'.args[1]] = FreshEntry(last'.args[1], remote'[last'.args[1]])]_vars

C5_Witness ==
    last.op = "process_file" /\ last.wrote /\ cache = EmptyCache

\* C6: no read is served a cached record set of age TTL or more; a page load
\* serves the stored set while it is younger than TTL and otherwise reads the
\* remote table and stores the result with age 0.
C6_NoStaleRead ==
    [][/\ last'.age < TTL
       /\ (last'.op = "view" /\ last'.fkind = OK)
            => IF cache[last'.args[1]].has /\ cache[last'.args[1]].age < TTL
               THEN cache'[last'.args[1]] = cache[last'.args[1]]
               ELSE cache'[last'.args[1]] = FreshEntry(last'.args[1], remote[last'.args[1]])]_vars

C6_Witness ==
    last.op = "view" /\ last.age = TTL - 1

\* C8: a handler in which one remote call failed with a rate-limit error ends
\* as if nothing had failed: no error is shown, none reaches the caller, and
\* an add has appended its row.
C8_RateLimitInvisible ==
    last.fkind = E429
        => ~last.shown /\ ~last.raised /\ (last.op = "add_entry" => last.wrote)

\* C9: when a step of the replace fails with a permanent error, update_row_by_id
\* returns True only if the remote table holds the patched row.
C9_UpdateReportsFailure ==
    (last.op = "update_card" /\ last.fkind = E404 /\ last.rv = "True")
        => \E k \in 1..Len(Records("Cards", remote["Cards"])) :
              Records("Cards", remote["Cards"])[k] =
                  [ID |-> last.args[1], Name |-> last.args[2], Limit |-> last.args[3]]

\* C7: api_retry ends, after at most RetryLoops + 1 calls; a call is followed
\* by another only if it failed with a rate-limit error and fewer than
\* RetryLoops + 1 calls were made; it returns exactly when its last call
\* succeeded and raises exactly when its last call failed.
RetryDone == rpc \in {"returned", "raised"}

C7_Shape ==
    /\ Len(rcalls) <= RetryLoops + 1
    /\ \A k \in 1..(Len(rcalls) - 1) : IsRateLimit(rcalls[k])
    /\ ~RetryDone => \A k \in 1..Len(rcalls) : IsRateLimit(rcalls[k])
    /\ rpc = "returned" => Len(rcalls) >= 1 /\ rcalls[Len(rcalls)] = OK
    /\ rpc = "raised" =>
          /\ Len(rcalls) >= 1 /\ rcalls[Len(rcalls)] # OK
          /\ Len(rcalls) <= RetryLoops => ~IsRateLimit(rcalls[Len(rcalls)])

C7_RetryBounded == [](C7_Shape) /\ <>RetryDone

C7_Witness ==
    rpc = "returned" /\ Len(rcalls) = RetryLoops + 1

\* C10: the replace clears, then writes the header, then the data rows; a read
\* between the clear and the data write sees zero rows, and every read sees
\* the old rows, the new rows or no row, never a mixture.
C10_ReplaceWindow ==
    /\ wpc = "header" => remote["Transactions"] = <<>>
    /\ wpc = "data" => remote["Transactions"] = <<HDR>>
    /\ seen.read =>
          /\ seen.pc \in {"header", "data"} => seen.rows = <<>>
          /\ seen.rows \in {seen.old, seen.new, <<>>}

C10_Witness ==
    seen.read /\ seen.pc = "data" /\ seen.rows = <<>> /\ seen.old # <<>> /\ seen.new # <<>>

\* C11: after any sequence of Manual Add and Smart Upload operations on a
\* table whose IDs start pairwise distinct, the IDs of the Transactions rows
\* are pairwise distinct positive integers.
C11_DistinctIds ==
    \A j, k \in 1..Len(TxNow) :
        /\ TxNow[j].ID >= 1
        /\ j # k => TxNow[j].ID # TxNow[k].ID

\* C12: get_next_id returns 1 for an empty collection and otherwise one plus
\* the largest numeric value of the ID column, where a cell that is not a
\* number (the text abc, the empty text, a missing cell) counts as zero.
C12_Counted(c) ==
    IF c.k = "int" THEN c.v
    ELSE IF c = StrCell(<<"1", "2">>) THEN 12
    ELSE 0

C12_NextId ==
    fout # <<>> =>
        LET ids == fin[1].ids
        IN  /\ ids = <<>> => fout[1] = 1
            /\ (ids # <<>> /\ fin[1].hasId) =>
                  /\ \A k \in 1..Len(ids) : fout[1] >= C12_Counted(ids[k]) + 1
                  /\ \E k \in 1..Len(ids) : fout[1] = C12_Counted(ids[k]) + 1

C12_Witness ==
    /\ fin # <<>> /\ fout = <<8>>
    /\ fin[1].ids = <<IntCell(1), IntCell(3), IntCell(7), StrCell(<<"a", "b", "c">>)>>

\* C13: after any sequence of Save Statement operations the Statements table
\* holds at most one row for each (CardID, Year, Month), and a save that
\* completed leaves exactly one row for its triple.
StmtsNow == Records("Statements", remote["Statements"])

C13_OneStatementPerPeriod ==
    /\ \A j, k \in 1..Len(StmtsNow) :
          (j # k) => <<StmtsNow[j].CardID, StmtsNow[j].Year, StmtsNow[j].Month>>
                       # <<StmtsNow[k].CardID, StmtsNow[k].Year, StmtsNow[k].Month>>
    /\ (last.op = "save_statement" /\ last.wrote) =>
          \E k \in 1..Len(StmtsNow) :
              <<StmtsNow[k].CardID, StmtsNow[k].Year, StmtsNow[k].Month>> = last.args

C13_Witness ==
    /\ last.op = "save_statement" /\ last.wrote /\ last.args = <<1, 2026, "Jan">>
    /\ Len(StmtsNow) = 3
    /\ \E k \in 1..Len(StmtsNow) : StmtsNow[k].CardID = 1 /\ StmtsNow[k].Billed = 200

\* C14: after a Save All Balances the Bank_Balances table holds at most one
\* row for each (BankID, Year, Month), and every row of another period is
\* still in the table, unchanged.
BalNow == Records("Bank_Balances", remote["Bank_Balances"])
BalNext == Records("Bank_Balances", remote'["Bank_Balances"])

C14_BalancesKept ==
    [][last'.op = "save_balances"
         => /\ \A j, k \in 1..Len(BalNext) :
                  (j # k) => <<BalNext[j].BankID, BalNext[j].Year, BalNext[j].Month>>
                               # <<BalNext[k].BankID, BalNext[k].Year, BalNext[k].Month>>
            /\ \A k \in 1..Len(BalNow) :
                  <<BalNow[k].Year, BalNow[k].Month>> # last'.args
                      => BalNow[k] \in Range(BalNext)]_vars

\* C15: for a card and period with a statement, the reported paid amount is
\* the sum of the payments of that card and period when there is at least one,
\* and the statement's Paid field when there is none; the reported remaining
\* is max(0, billed - paid).
RECURSIVE C15_Sum(_, _)
C15_Sum(cpays, S) ==
    IF S = {} THEN 0
    ELSE LET k == CHOOSE x \in S : TRUE IN cpays[k].Amount + C15_Sum(cpays, S \ {k})

C15_Matching(cpays) ==
    {k \in 1..Len(cpays) :
        cpays[k].CardID = 1 /\ cpays[k].Year = 2026 /\ cpays[k].Month = "Jan"}

C15_Stmt(stmts) == stmts[Len(stmts)]

C15_Paid(stmts, cpays) ==
    IF C15_Matching(cpays) # {} THEN C15_Sum(cpays, C15_Matching(cpays))
    ELSE C15_Stmt(stmts).Paid

C15_PaidFromLedger ==
    fout # <<>> =>
        /\ fout[1].curr_p = C15_Paid(fin[1], fin[2])
        /\ fout[1].rem = IF C15_Stmt(fin[1]).Billed >= C15_Paid(fin[1], fin[2])
                         THEN C15_Stmt(fin[1]).Billed - C15_Paid(fin[1], fin[2])
                         ELSE 0

C15_Witness ==
    /\ fin = <<<<Stmt(1, "Jan", 5000, 0)>>,
               <<Payment(1, 1, "Jan", 2000), Payment(2, 1, "Jan", 1000)>>>>
    /\ fout # <<>>
    /\ fout[1].curr_p = 3000 /\ fout[1].rem = 2000

\* C16: the card status is Paid when the remaining amount is at most 1,
\* whatever the due date; otherwise Overdue when the due date can be read and
\* lies before today; otherwise DueSoon when at most 5 days are left;
\* otherwise Upcoming (a due date that cannot be read leaves DueSoon or
\* Upcoming).
C16_Rem == IF fin[1] >= fin[2] THEN fin[1] - fin[2] ELSE 0

C16_StatusOrdered ==
    fout # <<>> =>
        IF C16_Rem <= 1 THEN fout[1] = "Fully Paid"
        ELSE IF fin[3] = NoDate THEN fout[1] \in {"Due in", "Due:"}
        ELSE IF fin[3] < Today THEN fout[1] = "Overdue by"
        ELSE IF fin[3] - Today <= 5 THEN fout[1] = "Due in"
        ELSE fout[1] = "Due:"

\* C17: a loan payment of amount a that was recorded appends exactly one
\* Loan_Repayments row and sets the loan's Outstanding to max(0, old - a);
\* Outstanding is never negative and never increases.
LoansNow == Records("Loans", remote["Loans"])
LoansNext == Records("Loans", remote'["Loans"])
RepayNow == Records("Loan_Repayments", remote["Loan_Repayments"])
RepayNext == Records("Loan_Repayments", remote'["Loan_Repayments"])

C17_OutstandingDecreases ==
    [][(last'.op \in {"loan_quick", "loan_custom"} /\ last'.wrote)
         => /\ Len(RepayNext) = Len(RepayNow) + 1
            /\ \A k \in 1..Len(LoansNow) :
                  LoansNow[k].ID = last'.args[1]
                      => /\ k \in 1..Len(LoansNext)
                         /\ LoansNext[k].Outstanding
                              = (IF LoansNow[k].Outstanding >= last'.args[2]
                                 THEN LoansNow[k].Outstanding - last'.args[2] ELSE 0)
                         /\ LoansNext[k].Outstanding >= 0
                         /\ LoansNext[k].Outstanding <= LoansNow[k].Outstanding]_vars

\* C18: a payment form (Pay Now, Quick Pay, Custom Payment) submitted with an
\* amount that is not positive appends no row and rewrites no table.
C18_Amount == last'.args[Len(last'.args)]

C18_NonPositiveRejected ==
    [][(last'.op \in {"pay_now", "loan_quick", "loan_custom"} /\ C18_Amount <= 0)
         => /\ remote' = remote
            /\ ~last'.wrote]_vars

\* C19: after any sequence of Add Card and Edit Card no two Cards rows have
\* the same Name when case and surrounding blanks are ignored.
CardsNow == Records("Cards", remote["Cards"])

C19_UniqueNames ==
    \A j, k \in 1..Len(CardsNow) :
        (j # k) => Lower(Strip(CardsNow[j].Name)) # Lower(Strip(CardsNow[k].Name))

\* C20: get_df of a schema table never raises and its result carries every
\* required column of the table, with rows or without.
C20_LoadShaped ==
    fout # <<>> =>
        /\ ~fout[1].raised
        /\ fout[1].cols
        /\ \A k \in 1..Len(fout[1].df) : RequiredCols(fin[1]) \subseteq DOMAIN fout[1].df[k]

\* C21: update_row_by_id with an ID that no row of the passed collection has
\* returns False without raising, issues no remote call and leaves the remote
\* table, the cache and the passed collection unchanged.
C21_NoRow ==
    /\ last'.op = "update_by_id"
    /\ \A k \in 1..Len(last'.args[2]) : last'.args[2][k].ID # last'.args[1]

C21_UpdateUnknownId ==
    [][C21_NoRow
         => /\ last'.rv = "False"
            /\ ~last'.raised
            /\ last'.grid.saveLog = <<>>
            /\ remote' = remote
            /\ cache' = cache
            /\ last'.args[3] = last'.args[2]]_vars

C21_Witness ==
    /\ last.op = "update_by_id" /\ last.args[1] = 3 /\ last.fkind = E404
    /\ Len(last.args[2]) = 2
    /\ last.rv = "False"

\* C22: delete_row_by_id with an ID that no record of the table has returns
\* False, issues no call other than the ones of the initial read, and leaves
\* the table and the cache unchanged.
C22_NoRecord ==
    /\ last'.op = "delete_by_id"
    /\ \A k \in 1..Len(CardsNow) : CardsNow[k].ID # last'.args[1]

C22_DeleteUnknownId ==
    [][C22_NoRecord
         => /\ last'.rv = "False"
            /\ ~last'.raised
            /\ \A k \in 1..Len(last'.grid.saveLog) :
                  last'.grid.saveLog[k] \in {"worksheet", "get_all_records"}
            /\ remote' = remote
            /\ cache' = cache]_vars

C22_Witness ==
    /\ last.op = "delete_by_id" /\ last.args = <<3>> /\ last.fkind = OK
    /\ last.grid.saveLog = <<"worksheet", "get_all_records">>
    /\ cache["Cards"].has
    /\ Len(CardsNow) = 3

\* C28: delete_row_by_id with an ID that a record has, no call failing for
\* good, removes exactly the first record with that ID, the sheet line at the
\* record's zero-based index + 2, leaves every other line unchanged and in
\* order, clears the cache and returns True.
C28_First == CHOOSE k \in 1..Len(CardsNow) :
                /\ CardsNow[k].ID = last'.args[1]
                /\ \A j \in 1..(k - 1) : CardsNow[j].ID # last'.args[1]

C28_DeleteFirstMatch ==
    [][(/\ last'.op = "delete_by_id"
        /\ \E k \in 1..Len(CardsNow) : CardsNow[k].ID = last'.args[1]
        /\ ~last'.shown)
         => /\ last'.rv = "True"
            /\ remote'["Cards"] = SubSeq(remote["Cards"], 1, C28_First)
                                     \o SubSeq(remote["Cards"], C28_First + 2,
                                               Len(remote["Cards"]))
            /\ \A t \in Tables \ {"Cards"} : remote'[t] = remote[t]
            /\ cache' = EmptyCache]_vars

C28_Witness ==
    /\ last.op = "delete_by_id" /\ last.args = <<1>> /\ last.rv = "True"
    /\ remote["Cards"] = <<SharedIdCards[1], SharedIdCards[2], SharedIdCards[4]>>

\* C23: a loan is reported paid for (Year, Month) exactly when a repayment of
\* the loan has a date that can be read and lies in that year and month; the
\* amount plays no part and a date that cannot be read never counts.
C23_DateOf(x) ==
    CASE x = TodayText -> <<2026, "January">>
      [] x = Jan15Dmy -> <<2026, "January">>
      [] x = Feb01Slash -> <<2026, "February">>
      [] x = Jan15LastYear -> <<2025, "January">>
      [] OTHER -> <<>>

C23_PaidIffDated ==
    fout # <<>> =>
        (fout[1] <=> \E k \in 1..Len(fin[1]) :
                        /\ fin[1][k].LoanID = 1
                        /\ C23_DateOf(fin[1][k].PaymentDate) = <<fin[2], fin[3]>>)

C23_Witness ==
    /\ fin = <<<<Repayment(1, 1, Jan15LastYear, 60), Repayment(2, 1, Jan15Dmy, 0)>>,
               2026, "January">>
    /\ fout = <<TRUE>>

\* C24: a plan is shown as unpaid only if EMI_Log has no row for its
\* (EMI_ID, Year, Month); marking it paid appends one EMI_Log row and never
\* writes Active_EMIs; EMI_Log holds at most one row for each
\* (EMI_ID, Year, Month).
EmiLogNow == Records("EMI_Log", remote["EMI_Log"])

C24_OneLogRowPerPeriod ==
    /\ remote["Active_EMIs"] = <<HDR, Plan(1, 0, "Closed"), Plan(2, 100, "Active")>>
    /\ \A j, k \in 1..Len(EmiLogNow) :
          (j # k) => <<EmiLogNow[j].EMI_ID, EmiLogNow[j].Year, EmiLogNow[j].Month>>
                       # <<EmiLogNow[k].EMI_ID, EmiLogNow[k].Year, EmiLogNow[k].Month>>

\* C25: init_sheets only adds: after a run that ended without an exception
\* every table of the schema exists and line 1 holds each of its columns;
\* after any run every header cell that existed is unchanged in place; and a
\* run on the result of a run without a failed call writes nothing.
C25_Writes == {"add_worksheet", "append_row", "update_cell"}

C25_AdditiveOnly ==
    [][last'.op = "init_sheets"
         => /\ ~last'.raised
                  => \A k \in 1..Len(SchemaOrder) :
                        /\ SchemaOrder[k] \in DOMAIN remote'
                        /\ remote'[SchemaOrder[k]] # <<>>
                        /\ Range(Schema(SchemaOrder[k]))
                              \subseteq Range(remote'[SchemaOrder[k]][1])
            /\ \A t \in DOMAIN remote :
                  /\ t \in DOMAIN remote'
                  /\ remote[t] # <<>>
                        => /\ remote'[t] # <<>>
                           /\ \A i \in 1..Len(remote[t][1]) :
                                 /\ i <= Len(remote'[t][1])
                                 /\ remote'[t][1][i] = remote[t][1][i]
            /\ last'.fkind = OK
                  => \A i \in 1..Len(InitSheetsRun(S0, NoFault).log)' :
                        InitSheetsRun(S0, NoFault).log'[i] \notin C25_Writes]_vars

\* C27: a Save Statement for one (CardID, Year, Month) leaves every Statements
\* row of every other triple in the remote table, unchanged, whatever the
\* read before the save returned.
StmtsNext == Records("Statements", remote'["Statements"])

C27_OtherPeriodsKept ==
    [][last'.op = "save_statement"
         => \A k \in 1..Len(StmtsNow) :
                <<StmtsNow[k].CardID, StmtsNow[k].Year, StmtsNow[k].Month>> # last'.args
                    => \E j \in 1..Len(StmtsNext) : StmtsNext[j] = StmtsNow[k]]_vars

\* C26: the dashboard's paid total for a period is the sum of the paid
\* amounts the card page shows for that period's statements, and its total
\* liability is max(0, billed - that paid total) + unbilled.
C26_CardsPaid == fout[2][1] + fout[2][2]

C26_SamePaid ==
    fout # <<>> =>
        /\ fout[1].paid = C26_CardsPaid
        /\ fout[1].total_liability =
              (IF fout[1].bill >= C26_CardsPaid THEN fout[1].bill - C26_CardsPaid ELSE 0)
                  + fout[1].unbilled

\* C29: two processes that each read the whole table, change it in memory and
\* replace the whole table can lose an update: the later replace erases the
\* change of the other process.  When one process reads the table only after
\* the other's replace is complete, both changes are in the table.
C29_Changed(p) ==
    /\ procs[p].pc = "done" /\ procs[p].rv = "True"
    /\ \E k \in 1..Len(remote["Cards"]) :
          /\ remote["Cards"][k].ID = procs[p].id
          /\ \A f \in DOMAIN procs[p].patch : remote["Cards"][k][f] = procs[p].patch[f]

C29_BothWrote == \A p \in Procs : procs[p].pc = "done" /\ procs[p].rv = "True"

C29_LostOnlyWhenInterleaved ==
    (procs # <<>> /\ C29_BothWrote)
        => \A p, q \in Procs :
               (p # q /\ p \in procs[q].sawDone) => (C29_Changed(p) /\ C29_Changed(q))

C29_Witness ==
    /\ procs # <<>> /\ C29_BothWrote
    /\ remote["Cards"][1] = HDR /\ Len(remote["Cards"]) = Len(TwoCards)
    /\ C29_Changed(2) /\ ~C29_Changed(1)
    /\ procs[1].id # procs[2].id

\* C30: two processes that each compute the next ID from their own read of
\* the table and then append can allocate the same ID, and the store keeps
\* both lines; the IDs differ whenever one process fetched the table only
\* after the other's append was complete.
C30_BothAppended == \A p \in Procs : procs[p].pc = "done"

C30_SameIdOnlyWhenInterleaved ==
    (procs # <<>> /\ C30_BothAppended)
        => /\ \A p, q \in Procs :
                 (p # q /\ p \in procs[q].sawDone) => procs[p].id # procs[q].id
           /\ \A p \in Procs :
                 \E k \in 1..Len(TxNow) : TxNow[k] = procs[p].df[1]

C30_Witness ==
    /\ procs # <<>> /\ C30_BothAppended
    /\ procs[1].id = procs[2].id
    /\ \E j, k \in 1..Len(TxNow) :
          j # k /\ TxNow[j].ID = procs[1].id /\ TxNow[k].ID = procs[1].id

====
